---- MODULE Spec2Model ----
(***************************************************************************)
(* A model of the Ottoneu draft assistant's persistent state (the SQLite   *)
(* tables hitters, pitchers, draft_log, valuation_config and               *)
(* historical_prices) and of the operations that change it: draft_player,  *)
(* undo_last_draft, recalculate_values, train_and_predict (with            *)
(* update_surplus_values), save_historical_prices and the init_db          *)
(* pipeline.                                                               *)
(*                                                                         *)
(* Conventions.  A nullable value (SQL NULL, pd.NA, NaN, None) is the      *)
(* empty sequence and a present value v is <<v>>.  A player name is a      *)
(* sequence of one-character strings.  Floating-point quantities are      *)
(* modelled by exact rationals <<numerator, denominator>>.                 *)
(***************************************************************************)
EXTENDS Integers, Sequences, FiniteSets, TLC

VARIABLES
    hitters,            \* table hitters: name -> row
    pitchers,           \* table pitchers: name -> row
    has_proj,           \* per table: does it have the proj_* columns
    draft_log,          \* table draft_log, in id order
    valuation_config,   \* table valuation_config
    historical_prices,  \* table historical_prices: set of rows keyed (player_name, season)
    dconn,              \* the connection of a draft_player / undo_last_draft call in progress
    write_lock,         \* which connection holds SQLite's write lock
    tconn,              \* the locals of a train_and_predict call in progress
    last,               \* the most recent completed operation ("draft_undo": an undo
                        \* that came right after a draft)
    ret,                \* what the most recent completed operation returned
    before,             \* the tables as they were just before the most recent draft
                        \* took effect
    calc,               \* the most recent call of a function of the pipeline on its
                        \* own: its arguments and what it returned
    rconn               \* the locals of a recalculate_values call in progress

vars == <<hitters, pitchers, has_proj, draft_log, valuation_config,
          historical_prices, dconn, write_lock, tconn, last, ret, before, calc,
          rconn>>

-----------------------------------------------------------------------------
(* Bounds of the model *)

NumHitters == 6
NumPitchers == 5
MaxLog == 2     \* drafts in the log, one call at a time
MaxLogC == 1    \* drafts in the log, statement by statement

-----------------------------------------------------------------------------
(* Nullable values and small arithmetic *)

NULL == <<>>
Some(v) == <<v>>
IsNull(x) == x = <<>>
NotNull(x) == x # <<>>
Val(x) == x[1]

Max(a, b) == IF a >= b THEN a ELSE b

\* F applied to the value of e, e evaluated once
Let(e, F(_)) == CHOOSE r \in {F(x) : x \in {e}} : TRUE

RECURSIVE SumOver(_, _)
SumOver(f, S) ==
    IF S = {} THEN 0
    ELSE LET x == CHOOSE y \in S : TRUE IN f[x] + SumOver(f, S \ {x})

\* a round that truncates
RoundHalfEven_Floor(n, d) == n \div d

\* round-half-to-even of the rational n/d (d > 0): numpy's round, which
\* pandas Series.round and ndarray.round use
RoundHalfEven(n, d) ==
    LET q == n \div d
        r == n % d
    IN  IF 2 * r < d THEN q
        ELSE IF 2 * r > d THEN q + 1
        ELSE IF q % 2 = 0 THEN q ELSE q + 1

RAdd(a, b) == <<a[1] * b[2] + b[1] * a[2], a[2] * b[2]>>

-----------------------------------------------------------------------------
(* normalize_name, on sequences of characters *)

Tokens == { <<"J","r">>, <<"S","r">>, <<"I","I">>, <<"I","I","I">>, <<"I","V">> }

\* NFD decomposition followed by dropping the combining marks (category Mn):
\* "e'" stands for the precomposed e-acute
Unaccent(c) == IF c = "e'" THEN "e" ELSE c

RECURSIVE LStrip(_)
LStrip(s) == IF s # <<>> /\ Head(s) = " " THEN LStrip(Tail(s)) ELSE s

RECURSIVE RStrip(_)
RStrip(s) ==
    IF s # <<>> /\ s[Len(s)] = " " THEN RStrip(SubSeq(s, 1, Len(s) - 1)) ELSE s

Strip(s) == Let(LStrip(s), LAMBDA t : RStrip(t))

\* does t match  ,?\s+(?:Jr|Sr|II|III|IV)\.?$  from its first character
SuffixMatch(t) ==
    LET u == IF t # <<>> /\ Head(t) = "," THEN Tail(t) ELSE t
        v == LStrip(u)
    IN  /\ Len(v) < Len(u)
        /\ \/ v \in Tokens
           \/ /\ v # <<>>
              /\ v[Len(v)] = "."
              /\ SubSeq(v, 1, Len(v) - 1) \in Tokens

\* re.sub of the suffix pattern: the leftmost match is removed
StripSuffix(s) ==
    Let({i \in 1..Len(s) : SuffixMatch(SubSeq(s, i, Len(s)))},
        LAMBDA starts :
            IF starts = {} THEN s
            ELSE SubSeq(s, 1, (CHOOSE k \in starts : \A j \in starts : k <= j) - 1))

RECURSIVE CollapseSpaces(_)
CollapseSpaces(s) ==
    IF Len(s) < 2 THEN s
    ELSE IF s[1] = " " /\ s[2] = " " THEN CollapseSpaces(Tail(s))
    ELSE <<s[1]>> \o CollapseSpaces(Tail(s))

\* the five steps of normalize_name, each applied to the value of the last
Unaccented(a) == [i \in 1..Len(a) |-> Unaccent(a[i])]
NoPeriods(b) == SelectSeq(b, LAMBDA ch : ch # ".")
normalize_name(name) ==
    Let(Strip(name), LAMBDA a :
    Let(Unaccented(a), LAMBDA b :
    Let(NoPeriods(b), LAMBDA c :
    Let(StripSuffix(c), LAMBDA d :
    Let(CollapseSpaces(d), LAMBDA e : Strip(e))))))

\* str.lower
LowerChar(c) ==
    CASE c = "A" -> "a"
      [] c = "B" -> "b"
      [] c = "I" -> "i"
      [] c = "J" -> "j"
      [] c = "S" -> "s"
      [] c = "V" -> "v"
      [] OTHER -> c

Lower(s) == [i \in 1..Len(s) |-> LowerChar(s[i])]

-----------------------------------------------------------------------------
(* The merged player tables the pipeline can produce *)

Letters == <<"a", "b", "c", "d", "e", "f", "g", "h", "i", "j", "k", "l", "m", "n">>

\* the last hitter and the first pitcher share a name (a two-way player)
HitterName(i) == <<Letters[i]>>
PitcherName(j) == <<Letters[NumHitters + j - 1]>>
HitterNames == {HitterName(i) : i \in 1..NumHitters}
PitcherNames == {PitcherName(j) : j \in 1..NumPitchers}
HitterIndex(n) == CHOOSE i \in 1..NumHitters : HitterName(i) = n
PitcherIndex(n) == CHOOSE j \in 1..NumPitchers : PitcherName(j) = n

\* the source files found by load_all: with projections for everybody, for
\* everybody but one hitter, for a few players only, or with no projection
\* files at all
Datasets == {"full", "partial", "sparse", "noproj"}

DatasetHasProj(ds) == [hitters |-> ds # "noproj", pitchers |-> ds # "noproj"]

\* merge_hitters: the merged row of hitter i, draft state and valuation
\* columns initialised
merge_hitters(ds, i) ==
    LET projected == \/ ds = "full"
                     \/ ds = "partial" /\ i # 3
                     \/ ds = "sparse" /\ i <= 3
        P(v) == IF projected THEN Some(v) ELSE NULL
    IN  [salary |-> IF i % 2 = 1 THEN Some(i) ELSE NULL,
         proj_fpts |-> P(10 * Max(NumHitters - i, 1) + 20),
         proj_wrc_plus |-> P(100 + i),
         proj_hr |-> IF ds = "sparse" /\ i = 1 THEN NULL ELSE P(2 * i),
         proj_sb |-> P(i),
         proj_ops |-> P(1),
         is_drafted |-> FALSE,
         draft_price |-> NULL,
         dollar_value |-> NULL,
         predicted_price |-> NULL,
         surplus_value |-> NULL]

\* merge_pitchers: the merged row of pitcher j
merge_pitchers(ds, j) ==
    LET projected == ds \in {"full", "partial"} \/ (ds = "sparse" /\ j <= 2)
        P(v) == IF projected THEN Some(v) ELSE NULL
    IN  [salary |-> IF j % 2 = 0 THEN Some(j) ELSE NULL,
         proj_fpts |-> P(10 * (NumPitchers - j) + 15),
         proj_ip |-> P(IF j = 2 THEN 0 ELSE 30 * j),
         proj_era |-> P(2 + j),
         proj_so |-> P(20 * j + 5),
         proj_sv |-> P(IF j = 1 THEN 30 ELSE 0),
         proj_hr |-> P(3 * j),
         is_drafted |-> FALSE,
         draft_price |-> NULL,
         dollar_value |-> NULL,
         predicted_price |-> NULL,
         surplus_value |-> NULL]

MergedHitters(ds) == [n \in HitterNames |-> merge_hitters(ds, HitterIndex(n))]
MergedPitchers(ds) == [n \in PitcherNames |-> merge_pitchers(ds, PitcherIndex(n))]

-----------------------------------------------------------------------------
(* League configuration *)

DEFAULT_CONFIG ==
    [num_teams |-> 12, budget_per_team |-> 400, hitter_budget_pct |-> 65,
     hitters_per_team |-> 20, pitchers_per_team |-> 20]

\* what the settings form can submit (within its widgets' ranges)
ConfigChoices ==
    { DEFAULT_CONFIG,
      [num_teams |-> 4, budget_per_team |-> 100, hitter_budget_pct |-> 30,
       hitters_per_team |-> 5, pitchers_per_team |-> 5] }

-----------------------------------------------------------------------------
(* Valuation: dollar_value.py *)

Projected(df) == {n \in DOMAIN df : NotNull(df[n].proj_fpts)}

\* a replacement level that is always the lowest projection of the pool
ReplacementFpts_Lowest(df, replacement_rank) ==
    LET pool == Projected(df)
        F(n) == Val(df[n].proj_fpts)
    IN  F(CHOOSE n \in pool : \A m \in pool : F(n) <= F(m))

\* sorted_fpts.iloc[replacement_rank - 1] when the pool is large enough,
\* otherwise sorted_fpts.iloc[-1]
ReplacementFpts(df, replacement_rank) ==
    LET pool == Projected(df)
        F(n) == Val(df[n].proj_fpts)
    IN  IF replacement_rank <= Cardinality(pool)
        THEN F(CHOOSE n \in pool :
                 /\ Cardinality({m \in pool : F(m) > F(n)}) < replacement_rank
                 /\ Cardinality({m \in pool : F(m) >= F(n)}) >= replacement_rank)
        ELSE F(CHOOSE n \in pool : \A m \in pool : F(n) <= F(m))

\* marginal points taken as the distance from the replacement level
MarginalFpts_Distance(df, replacement_fpts) ==
    [n \in Projected(df) |->
        IF Val(df[n].proj_fpts) >= replacement_fpts
        THEN Val(df[n].proj_fpts) - replacement_fpts
        ELSE replacement_fpts - Val(df[n].proj_fpts)]

\* the _marginal_fpts column: (proj_fpts - replacement_fpts).clip(lower=0)
MarginalFpts(df, replacement_fpts) ==
    [n \in Projected(df) |-> Max(Val(df[n].proj_fpts) - replacement_fpts, 0)]

ClearValues(df) ==
    [n \in DOMAIN df |->
        [df[n] EXCEPT !.dollar_value = NULL, !.predicted_price = NULL,
                      !.surplus_value = NULL]]

\* a valuation that rebuilds the draft-state columns the way the merge does
CalcValues_ResetsDraft(df, has_col, num_teams, players_per_team, budget) ==
    [n \in DOMAIN df |->
        [df[n] EXCEPT !.is_drafted = FALSE, !.draft_price = NULL,
                      !.dollar_value = NULL, !.predicted_price = NULL,
                      !.surplus_value = NULL]]

\* a valuation without the minimum of 1 for the players above replacement
CalcValues_NoMinimum(df, has_col, num_teams, players_per_team, budget) ==
    IF ~has_col \/ Projected(df) = {} THEN ClearValues(df)
    ELSE
    LET replacement_fpts == ReplacementFpts(df, num_teams * players_per_team)
        marginal == MarginalFpts(df, replacement_fpts)
        total_marginal == SumOver(marginal, Projected(df))
        Dollar(n) ==
            IF total_marginal > 0
            THEN RoundHalfEven(marginal[n] * budget[1], budget[2] * total_marginal)
            ELSE 0
        dv == [n \in DOMAIN df |->
                  IF n \in Projected(df) THEN Some(Dollar(n)) ELSE NULL]
    IN  [n \in DOMAIN df |->
            [df[n] EXCEPT !.dollar_value = dv[n],
                          !.predicted_price = dv[n],
                          !.surplus_value = IF IsNull(dv[n]) THEN NULL ELSE Some(0)]]

\* a valuation that gives every projected player $1 when no marginal points
\* exist
CalcValues_ZeroTotalOne(df, has_col, num_teams, players_per_team, budget) ==
    IF ~has_col \/ Projected(df) = {} THEN ClearValues(df)
    ELSE
    LET replacement_fpts == ReplacementFpts(df, num_teams * players_per_team)
        marginal == MarginalFpts(df, replacement_fpts)
        total_marginal == SumOver(marginal, Projected(df))
        Dollar(n) ==
            IF total_marginal > 0
            THEN IF marginal[n] > 0
                 THEN Max(RoundHalfEven(marginal[n] * budget[1],
                                        budget[2] * total_marginal), 1)
                 ELSE 0
            ELSE 1
        dv == [n \in DOMAIN df |->
                  IF n \in Projected(df) THEN Some(Dollar(n)) ELSE NULL]
    IN  [n \in DOMAIN df |->
            [df[n] EXCEPT !.dollar_value = dv[n],
                          !.predicted_price = dv[n],
                          !.surplus_value = IF IsNull(dv[n]) THEN NULL ELSE Some(0)]]

\* _calc_values; available_budget is the rational budget[1] / budget[2]
CalcValues(df, has_col, num_teams, players_per_team, budget) ==
    IF ~has_col \/ Projected(df) = {} THEN ClearValues(df)
    ELSE
    LET replacement_fpts == ReplacementFpts(df, num_teams * players_per_team)
        marginal == MarginalFpts(df, replacement_fpts)
        total_marginal == SumOver(marginal, Projected(df))
        Dollar(n) ==
            IF total_marginal > 0
            THEN IF marginal[n] > 0
                 THEN Max(RoundHalfEven(marginal[n] * budget[1],
                                        budget[2] * total_marginal), 1)
                 ELSE 0
            ELSE 0
        dv == [n \in DOMAIN df |->
                  IF n \in Projected(df) THEN Some(Dollar(n)) ELSE NULL]
    IN  [n \in DOMAIN df |->
            [df[n] EXCEPT !.dollar_value = dv[n],
                          !.predicted_price = dv[n],
                          !.surplus_value = IF IsNull(dv[n]) THEN NULL ELSE Some(0)]]

\* a valuation that keeps the predicted prices already stored
calculate_dollar_values_KeepsPrice(h, p, has, cfg) ==
    LET total_budget == cfg.num_teams * cfg.budget_per_team
        Keep(new, old) ==
            [n \in DOMAIN new |->
                IF NotNull(old[n].predicted_price)
                THEN [new[n] EXCEPT !.predicted_price = old[n].predicted_price]
                ELSE new[n]]
    IN  [hitters |-> Keep(CalcValues(h, has.hitters, cfg.num_teams,
                                     cfg.hitters_per_team,
                                     <<total_budget * cfg.hitter_budget_pct, 100>>), h),
         pitchers |-> Keep(CalcValues(p, has.pitchers, cfg.num_teams,
                                      cfg.pitchers_per_team,
                                      <<total_budget * (100 - cfg.hitter_budget_pct),
                                        100>>), p)]

\* calculate_dollar_values: both pools under one configuration
calculate_dollar_values(h, p, has, cfg) ==
    LET total_budget == cfg.num_teams * cfg.budget_per_team
    IN  [hitters |-> CalcValues(h, has.hitters, cfg.num_teams, cfg.hitters_per_team,
                                <<total_budget * cfg.hitter_budget_pct, 100>>),
         pitchers |-> CalcValues(p, has.pitchers, cfg.num_teams, cfg.pitchers_per_team,
                                 <<total_budget * (100 - cfg.hitter_budget_pct), 100>>)]

-----------------------------------------------------------------------------
(* Historical prices: queries.py *)

HistRow(name, season, price) ==
    [player_name |-> name, season |-> season, price |-> price]

\* the rows an auction export can hold: one per current player, or a few
\* rows with raw spellings, a null price and a player nobody projects
BatchAll ==
    {HistRow(n, 2024, Some(10 + Len(n))) : n \in HitterNames \cup PitcherNames}

BatchFew ==
    { HistRow(<<"A">>, 2025, Some(30)),
      HistRow(<<"a", " ", "J", "r", ".">>, 2023, Some(7)),
      HistRow(<<"b">>, 2025, NULL),
      HistRow(<<"b">>, 2024, Some(12)),
      HistRow(<<"z">>, 2025, Some(3)) }

\* what "Load Auction Data" is given
HistBatches == {BatchFew}

\* save_historical_prices: INSERT OR REPLACE on the key (player_name, season)
save_historical_prices(table, rows) ==
    {r \in table : \A q \in rows :
        ~(q.player_name = r.player_name /\ q.season = r.season)} \cup rows

\* every spelling of a name that reaches _match_players
RawNames ==
    HitterNames \cup PitcherNames \cup {r.player_name : r \in BatchAll \cup BatchFew}

\* the _match_name column of _match_players: normalize_name, then str.lower
\* (tabulated once over the names in use)
MatchKey == [n \in RawNames |-> Let(normalize_name(n), LAMBDA x : Lower(x))]
MatchName(name) == MatchKey[name]

-----------------------------------------------------------------------------
(* Price model: price_model.py and surplus.py *)

HITTER_FEATURES == <<"proj_fpts", "proj_wrc_plus", "proj_hr", "proj_sb", "proj_ops">>
PITCHER_FEATURES == <<"proj_fpts", "proj_ip", "proj_era", "proj_k_per_9", "is_closer">>

\* list(dict.fromkeys(HITTER_FEATURES + PITCHER_FEATURES))
all_feature_names ==
    <<"proj_fpts", "proj_wrc_plus", "proj_hr", "proj_sb", "proj_ops",
      "proj_ip", "proj_era", "proj_k_per_9", "is_closer">>

MinTrainingSamples == 10

Fill0(x) == IF IsNull(x) THEN 0 ELSE Val(x)

\* _derive_pitcher_features: strikeouts per nine innings, 0 when there are no
\* innings or no projection columns
DerivedKPer9(r, has_col) ==
    IF has_col /\ Fill0(r.proj_ip) > 0
    THEN <<9 * Fill0(r.proj_so), Fill0(r.proj_ip)>>
    ELSE <<0, 1>>

IsCloser(r, has_col) == IF has_col /\ Fill0(r.proj_sv) > 10 THEN 1 ELSE 0

\* the row of X that _predict_table builds: every feature that is a column
\* of the table (the pitcher projections hold home runs allowed, proj_hr,
\* too), nulls filled with 0, every other feature 0.0
PredictVector(table, r, has_col) ==
    LET C(x) == IF has_col THEN <<Fill0(x), 1>> ELSE <<0, 1>>
    IN  IF table = "hitters"
        THEN [f \in {all_feature_names[i] : i \in 1..Len(all_feature_names)} |->
                CASE f = "proj_fpts" -> C(r.proj_fpts)
                  [] f = "proj_wrc_plus" -> C(r.proj_wrc_plus)
                  [] f = "proj_hr" -> C(r.proj_hr)
                  [] f = "proj_sb" -> C(r.proj_sb)
                  [] f = "proj_ops" -> C(r.proj_ops)
                  [] OTHER -> <<0, 1>>]
        ELSE [f \in {all_feature_names[i] : i \in 1..Len(all_feature_names)} |->
                CASE f = "proj_fpts" -> C(r.proj_fpts)
                  [] f = "proj_hr" -> C(r.proj_hr)
                  [] f = "proj_ip" -> C(r.proj_ip)
                  [] f = "proj_era" -> C(r.proj_era)
                  [] f = "proj_k_per_9" -> DerivedKPer9(r, has_col)
                  [] f = "is_closer" -> <<IsCloser(r, has_col), 1>>
                  [] OTHER -> <<0, 1>>]

\* A fitted scaler + ridge model is an affine map of the feature vector:
\* (intercept + sum of coef[f] * x[f]) / den.  The fit itself (scikit-learn)
\* is not computed: a successful training run yields one of these maps.
NoModel == [intercept |-> 0, den |-> 1, coef |-> <<>>]

ModelA ==
    [intercept |-> -40, den |-> 1,
     coef |-> <<1, 0, 1, 0, 0, 0, -1, 1, 5>>]

ModelB ==
    [intercept |-> 5, den |-> 2,
     coef |-> <<1, 0, 0, 1, 0, 0, 0, 0, 0>>]

Models == {ModelA, ModelB}

RECURSIVE Affine(_, _, _)
Affine(m, x, k) ==
    IF k = 0 THEN <<m.intercept, m.den>>
    ELSE LET xf == x[all_feature_names[k]]
         IN  RAdd(Affine(m, x, k - 1), <<m.coef[k] * xf[1], m.den * xf[2]>>)

\* model.predict, then clip(min=0).round(0).astype(int)
\* a prediction that is rounded but not clipped at 0
Predict_NoClip(m, x) ==
    LET raw == Affine(m, x, Len(all_feature_names))
    IN  RoundHalfEven(raw[1], raw[2])

Predict(m, x) ==
    LET raw == Affine(m, x, Len(all_feature_names))
    IN  IF raw[1] < 0 THEN 0 ELSE RoundHalfEven(raw[1], raw[2])

\* _match_players: the current players that have a historical price, with the
\* price of their most recent season (hist holds the non-null prices only);
\* nothing when the table is empty or has none of the feature columns
MatchPlayers(hist, players, available) ==
    IF DOMAIN players = {} \/ hist = {} \/ ~available THEN <<>>
    ELSE
    Let({<<MatchName(r.player_name), r>> : r \in hist}, LAMBDA keyed :
    Let({k[1] : k \in keyed}, LAMBDA keys :
        [n \in {m \in DOMAIN players : MatchName(m) \in keys} |->
            (CHOOSE k \in keyed :
                /\ k[1] = MatchName(n)
                /\ \A q \in keyed : q[1] = k[1] => q[2].season <= k[2].season)[2].price]))

\* the rows of X that survive "X.notna().all(axis=1) & y.notna()"
ValidHitterRows(matched, h) ==
    {n \in DOMAIN matched :
        /\ NotNull(matched[n])
        /\ NotNull(h[n].proj_fpts) /\ NotNull(h[n].proj_wrc_plus)
        /\ NotNull(h[n].proj_hr) /\ NotNull(h[n].proj_sb) /\ NotNull(h[n].proj_ops)}

\* without projection columns a pitcher row holds the derived features only,
\* the rest padded with 0: no nulls
ValidPitcherRows(matched, p, has_col) ==
    {n \in DOMAIN matched :
        /\ NotNull(matched[n])
        /\ has_col => /\ NotNull(p[n].proj_fpts)
                      /\ NotNull(p[n].proj_ip)
                      /\ NotNull(p[n].proj_era)}

\* len(X) after the null rows are dropped
CountValid(h_matched, p_matched, h, p, has) ==
    Cardinality(ValidHitterRows(h_matched, h))
    + Cardinality(ValidPitcherRows(p_matched, p, has.pitchers))

NumValidRows(hist_all, h, p, has) ==
    Let({r \in hist_all : NotNull(r.price)}, LAMBDA hist :
        CountValid(MatchPlayers(hist, h, has.hitters), MatchPlayers(hist, p, TRUE),
                   h, p, has))

Raise(msg) == [kind |-> "raise", value |-> <<msg>>]

\* a training run that fits on whatever rows there are
TrainingOutcome_NoMinimum(hist_all, h, p, has) ==
    IF {r \in hist_all : NotNull(r.price)} = {} THEN Raise("No draft data available")
    ELSE [kind |-> "fit", value |-> <<>>]

\* train_and_predict up to the point where it fits: the error it raises, or
\* "fit"
TrainingOutcome(hist_all, h, p, has) ==
    Let({r \in hist_all : NotNull(r.price)}, LAMBDA hist :
        IF hist = {} THEN Raise("No draft data available")
        ELSE
        Let(MatchPlayers(hist, h, has.hitters), LAMBDA h_matched :
        Let(MatchPlayers(hist, p, TRUE), LAMBDA p_matched :
            IF DOMAIN h_matched = {} /\ DOMAIN p_matched = {}
            THEN Raise("No players matched")
            ELSE IF CountValid(h_matched, p_matched, h, p, has) < MinTrainingSamples
            THEN Raise("Only n valid training samples")
            ELSE [kind |-> "fit", value |-> <<>>])))

\* _predict_table: UPDATE predicted_price of every player of the DataFrame
\* `players` that has projected points, in the table as it is now
PredictTable(live, players, table, has_col, m) ==
    [n \in DOMAIN live |->
        IF n \in DOMAIN players /\ has_col /\ NotNull(players[n].proj_fpts)
        THEN [live[n] EXCEPT !.predicted_price =
                  Some(Predict(m, PredictVector(table, players[n], has_col)))]
        ELSE live[n]]

\* a surplus taken the wrong way round
UpdateSurplus_Reversed(df) ==
    [n \in DOMAIN df |->
        IF NotNull(df[n].dollar_value) /\ NotNull(df[n].predicted_price)
        THEN [df[n] EXCEPT !.surplus_value =
                              Some(Val(df[n].predicted_price) - Val(df[n].dollar_value))]
        ELSE df[n]]

\* update_surplus_values, on one table
UpdateSurplus(df) ==
    [n \in DOMAIN df |->
        IF NotNull(df[n].dollar_value) /\ NotNull(df[n].predicted_price)
        THEN [df[n] EXCEPT !.surplus_value =
                              Some(Val(df[n].dollar_value) - Val(df[n].predicted_price))]
        ELSE df[n]]


-----------------------------------------------------------------------------
(* Draft and undo: queries.py *)

Db == [hitters |-> hitters, pitchers |-> pitchers, draft_log |-> draft_log]

\* what draft_player is called with (table, name, price): the two-way player
\* from either tab, at one price or another, or a name the table does not
\* (or no longer) hold
DraftCalls ==
    { <<"hitters", PitcherName(1), 1>>, <<"hitters", PitcherName(1), 40>>,
      <<"pitchers", PitcherName(1), 40>>, <<"pitchers", HitterName(1), 1>> }
Teams == {"Team A"}

\* SELECT salary FROM table WHERE name = ?
SelectSalary(db, table, name) ==
    IF name \in DOMAIN db[table] THEN db[table][name].salary ELSE NULL

\* the UPDATE without its WHERE clause
DraftUpdate_NoWhere(db, table, name, price) ==
    [db EXCEPT ![table] =
        [n \in DOMAIN db[table] |->
            [db[table][n] EXCEPT !.is_drafted = TRUE, !.draft_price = Some(price)]]]

\* UPDATE table SET is_drafted = 1, draft_price = ? WHERE name = ?
DraftUpdate(db, table, name, price) ==
    [db EXCEPT ![table] =
        [n \in DOMAIN db[table] |->
            IF n = name
            THEN [db[table][n] EXCEPT !.is_drafted = TRUE, !.draft_price = Some(price)]
            ELSE db[table][n]]]

\* INSERT INTO draft_log
DraftInsert(db, table, name, price, team, salary) ==
    [db EXCEPT !.draft_log =
        Append(db.draft_log,
               [player_name |-> name,
                player_type |-> IF table = "hitters" THEN "hitter" ELSE "pitcher",
                projected_salary |-> salary,
                draft_price |-> price,
                drafting_team |-> team])]

\* draft_player, start to commit
draft_player(db, table, name, price, team) ==
    DraftInsert(DraftUpdate(db, table, name, price), table, name, price, team,
                SelectSalary(db, table, name))

\* SELECT * FROM draft_log ORDER BY id DESC LIMIT 1 (ids grow with insertion)
LastEntry(db) == db.draft_log[Len(db.draft_log)]

EntryTable(entry) == IF entry.player_type = "hitter" THEN "hitters" ELSE "pitchers"

\* an undo that clears the flag and keeps the price
UndoUpdate_KeepsPrice(db, entry) ==
    [db EXCEPT ![EntryTable(entry)] =
        [n \in DOMAIN db[EntryTable(entry)] |->
            IF n = entry.player_name
            THEN [db[EntryTable(entry)][n] EXCEPT !.is_drafted = FALSE]
            ELSE db[EntryTable(entry)][n]]]

\* UPDATE table SET is_drafted = 0, draft_price = NULL WHERE name = ?
UndoUpdate(db, entry) ==
    LET table == EntryTable(entry)
    IN  [db EXCEPT ![table] =
            [n \in DOMAIN db[table] |->
                IF n = entry.player_name
                THEN [db[table][n] EXCEPT !.is_drafted = FALSE, !.draft_price = NULL]
                ELSE db[table][n]]]

\* DELETE FROM draft_log WHERE id = ?  (the id of the last entry)
UndoDelete(db) ==
    [db EXCEPT !.draft_log = SubSeq(db.draft_log, 1, Len(db.draft_log) - 1)]

\* undo_last_draft, start to commit
undo_last_draft(db) ==
    IF db.draft_log = <<>> THEN db
    ELSE UndoDelete(UndoUpdate(db, LastEntry(db)))

\* an undo that answers with an empty name when there is nothing to undo
UndoReturn_EmptyName(db) ==
    [kind |-> "name",
     value |-> IF db.draft_log = <<>> THEN <<>> ELSE LastEntry(db).player_name]

\* what undo_last_draft returns
UndoReturn(db) ==
    IF db.draft_log = <<>> THEN [kind |-> "none", value |-> <<>>]
    ELSE [kind |-> "name", value |-> LastEntry(db).player_name]

-----------------------------------------------------------------------------
(* The pipeline: init_db.py *)

\* draft_results.csv: absent, or one of the exports
CsvChoices == {{}, BatchAll}

\* What init_db leaves behind: the database file is deleted and rebuilt
\* (merged tables, default configuration, empty draft log, the historical
\* prices of draft_results.csv), the dollar values are computed when there
\* are projections, and the price model is trained when there are historical
\* rows and projections; `trains` says whether that training fits a model
\* (an error is caught and printed as a warning).
init_db(ds, csv) ==
    LET has == DatasetHasProj(ds)
        any_proj == has.hitters \/ has.pitchers
        valued == IF any_proj
                  THEN calculate_dollar_values(MergedHitters(ds), MergedPitchers(ds),
                                               has, DEFAULT_CONFIG)
                  ELSE [hitters |-> MergedHitters(ds), pitchers |-> MergedPitchers(ds)]
        hist == save_historical_prices({}, csv)
    IN  [hitters |-> valued.hitters, pitchers |-> valued.pitchers,
         has_proj |-> has, historical_prices |-> hist,
         trains |-> /\ hist # {}
                    /\ any_proj
                    /\ TrainingOutcome(hist, valued.hitters, valued.pitchers, has).kind
                         = "fit"]

\* init_db for every input, tabulated once
PipelineTable == [ds \in Datasets, csv \in CsvChoices |-> init_db(ds, csv)]

\* the tables after the pipeline's training step
PipelineResults(ds, csv) ==
    Let(PipelineTable[ds, csv], LAMBDA base :
        IF base.trains
        THEN {[hitters |-> UpdateSurplus(h), pitchers |-> UpdateSurplus(p),
               has_proj |-> base.has_proj,
               historical_prices |-> base.historical_prices]
              : <<h, p>> \in
                  {<<PredictTable(base.hitters, base.hitters, "hitters",
                                  base.has_proj.hitters, m),
                     PredictTable(base.pitchers, base.pitchers, "pitchers",
                                  base.has_proj.pitchers, m)>> : m \in Models}}
        ELSE {[hitters |-> base.hitters, pitchers |-> base.pitchers,
               has_proj |-> base.has_proj,
               historical_prices |-> base.historical_prices]})

-----------------------------------------------------------------------------
(* State machine *)

NoTx == [hitters |-> <<>>, pitchers |-> <<>>, draft_log |-> <<>>]
NoCalc == [op |-> "none"]
NoEntry ==
    [player_name |-> <<>>, player_type |-> "", projected_salary |-> NULL,
     draft_price |-> 0, drafting_team |-> ""]
IdleConn ==
    [op |-> "idle", pc |-> "idle", table |-> "", name |-> <<>>, price |-> 0,
     team |-> "", salary |-> NULL, entry |-> NoEntry, tx |-> NoTx]
IdleTrain == [pc |-> "idle", hitters |-> <<>>, pitchers |-> <<>>, model |-> NoModel]
IdleRecalc == [pc |-> "idle", hitters |-> <<>>, pitchers |-> <<>>]

Void == [kind |-> "void", value |-> <<>>]

Init ==
    \E ds \in Datasets, csv \in CsvChoices :
        \E s \in PipelineResults(ds, csv) :
            /\ hitters = s.hitters
            /\ pitchers = s.pitchers
            /\ has_proj = s.has_proj
            /\ historical_prices = s.historical_prices
            /\ valuation_config = DEFAULT_CONFIG
            /\ draft_log = <<>>
            /\ dconn = IdleConn
            /\ write_lock = "none"
            /\ tconn = IdleTrain
            /\ last = "init_db"
            /\ ret = Void
            /\ before = NoTx
            /\ calc = NoCalc
            /\ rconn = IdleRecalc

Idle == dconn = IdleConn /\ tconn = IdleTrain /\ write_lock = "none"

\* init_db, run from the settings page ("Reload data")
InitDb ==
    /\ Idle
    /\ \E ds \in Datasets, csv \in CsvChoices :
        \E s \in PipelineResults(ds, csv) :
            /\ hitters' = s.hitters
            /\ pitchers' = s.pitchers
            /\ has_proj' = s.has_proj
            /\ historical_prices' = s.historical_prices
    /\ valuation_config' = DEFAULT_CONFIG
    /\ draft_log' = <<>>
    /\ last' = "init_db"
    /\ ret' = Void
    /\ before' = NoTx
    /\ UNCHANGED <<dconn, write_lock, tconn>>
    /\ UNCHANGED <<calc, rconn>>

\* draft_player, as one call
DraftPlayer ==
    /\ Idle
    /\ Len(draft_log) < MaxLog
    /\ \E call \in DraftCalls, team \in Teams :
        LET db == draft_player(Db, call[1], call[2], call[3], team)
        IN  /\ hitters' = db.hitters
            /\ pitchers' = db.pitchers
            /\ draft_log' = db.draft_log
    /\ last' = "draft"
    /\ ret' = Void
    /\ before' = Db
    /\ UNCHANGED <<has_proj, valuation_config, historical_prices,
                   dconn, write_lock, tconn>>
    /\ UNCHANGED <<calc, rconn>>

\* undo_last_draft, as one call
UndoLastDraft ==
    /\ Idle
    /\ LET db == undo_last_draft(Db)
       IN  /\ hitters' = db.hitters
           /\ pitchers' = db.pitchers
           /\ draft_log' = db.draft_log
    /\ ret' = UndoReturn(Db)
    /\ last' = IF last = "draft" THEN "draft_undo" ELSE "undo"
    /\ before' = IF last = "draft" THEN before ELSE NoTx
    /\ UNCHANGED <<has_proj, valuation_config, historical_prices,
                   dconn, write_lock, tconn>>
    /\ UNCHANGED <<calc, rconn>>

\* recalculate_values on the tables read from the database
\* a recalculation that adds the stored dollar value to the new one
recalculate_values_Drifts(db, has, cfg) ==
    IF ~has.hitters /\ ~has.pitchers THEN db
    ELSE LET v == calculate_dollar_values(db.hitters, db.pitchers, has, cfg)
             Add(new, old) ==
                 [n \in DOMAIN new |->
                     IF NotNull(new[n].dollar_value) /\ NotNull(old[n].dollar_value)
                     THEN [new[n] EXCEPT !.dollar_value =
                              Some(Val(@) + Val(old[n].dollar_value))]
                     ELSE new[n]]
         IN  [db EXCEPT !.hitters = Add(v.hitters, db.hitters),
                        !.pitchers = Add(v.pitchers, db.pitchers)]

recalculate_values(db, has, cfg) ==
    IF ~has.hitters /\ ~has.pitchers THEN db
    ELSE LET v == calculate_dollar_values(db.hitters, db.pitchers, has, cfg)
         IN  [db EXCEPT !.hitters = v.hitters, !.pitchers = v.pitchers]

\* the "Recalculate Values" button: set_valuation_config, then
\* recalculate_values
RecalculateValues ==
    /\ Idle
    /\ \E cfg \in ConfigChoices :
        /\ valuation_config' = cfg
        /\ LET db == recalculate_values(Db, has_proj, cfg)
           IN  /\ hitters' = db.hitters
               /\ pitchers' = db.pitchers
    /\ last' = "recalculate"
    /\ ret' = Void
    /\ before' = NoTx
    /\ UNCHANGED <<has_proj, draft_log, historical_prices,
                   dconn, write_lock, tconn>>
    /\ UNCHANGED <<calc, rconn>>

\* train_and_predict, as one call: it raises before it writes anything, or
\* fits, saves the artifacts, predicts both tables and updates the surplus
TrainAndPredict ==
    /\ Idle
    /\ LET out == TrainingOutcome(historical_prices, hitters, pitchers, has_proj)
       IN  IF out.kind = "raise"
           THEN /\ ret' = out
                /\ UNCHANGED <<hitters, pitchers>>
           ELSE \E m \in Models :
                /\ hitters' = UpdateSurplus(PredictTable(hitters, hitters, "hitters",
                                                         has_proj.hitters, m))
                /\ pitchers' = UpdateSurplus(PredictTable(pitchers, pitchers, "pitchers",
                                                          has_proj.pitchers, m))
                /\ ret' = [kind |-> "dict", value |-> <<>>]
    /\ last' = "train"
    /\ before' = NoTx
    /\ UNCHANGED <<has_proj, draft_log, valuation_config, historical_prices,
                   dconn, write_lock, tconn>>
    /\ UNCHANGED <<calc, rconn>>

\* "Load Auction Data": save_historical_prices of a parsed export
SaveHistoricalPrices ==
    /\ Idle
    /\ \E rows \in HistBatches :
        /\ historical_prices' = save_historical_prices(historical_prices, rows)
        /\ ret' = [kind |-> "count", value |-> <<Cardinality(rows)>>]
    /\ last' = "save_hist"
    /\ before' = NoTx
    /\ UNCHANGED <<hitters, pitchers, has_proj, draft_log, valuation_config,
                   dconn, write_lock, tconn>>
    /\ UNCHANGED <<calc, rconn>>

Next ==
    \/ InitDb
    \/ DraftPlayer
    \/ UndoLastDraft
    \/ RecalculateValues
    \/ TrainAndPredict
    \/ SaveHistoricalPrices

\* one operator at a time, every operation run to completion
Spec == Init /\ [][Next]_vars

-----------------------------------------------------------------------------
(* The same operations statement by statement.  One draft_player or        *)
(* undo_last_draft call (connection dconn) runs alongside one               *)
(* train_and_predict call (tconn); the variables hitters, pitchers and      *)
(* draft_log are the committed database, which is what any other            *)
(* connection reads.                                                        *)

\* the committed tables with those of `db` in their place
Committed(db) ==
    /\ hitters' = db.hitters
    /\ pitchers' = db.pitchers
    /\ draft_log' = db.draft_log

\* a connection on which every statement is committed as it is executed
ImplicitTransaction_Autocommit(db, newdb) == [db |-> newdb, tx |-> newdb]

\* sqlite3.connect with the default isolation_level: a data-changing
\* statement opens a transaction implicitly, and its effect `newdb` stays
\* private to the connection until conn.commit()
ImplicitTransaction(db, newdb) == [db |-> db, tx |-> newdb]

\* draft_player: cur = conn.execute(SELECT salary ...); row = cur.fetchone()
DraftSelect ==
    /\ dconn = IdleConn
    /\ Len(draft_log) < MaxLogC
    /\ \E call \in DraftCalls, team \in Teams :
        dconn' = [IdleConn EXCEPT !.op = "draft", !.pc = "selected",
                                  !.table = call[1], !.name = call[2],
                                  !.price = call[3], !.team = team,
                                  !.salary = SelectSalary(Db, call[1], call[2])]
    /\ UNCHANGED <<hitters, pitchers, has_proj, draft_log, valuation_config,
                   historical_prices, write_lock, tconn, last, ret, before>>
    /\ UNCHANGED <<calc, rconn>>

\* draft_player: conn.execute(UPDATE ...), which takes the write lock
DraftExecUpdate ==
    /\ dconn.op = "draft" /\ dconn.pc = "selected"
    /\ write_lock = "none"
    /\ LET r == ImplicitTransaction(Db, DraftUpdate(Db, dconn.table, dconn.name,
                                                    dconn.price))
       IN  /\ Committed(r.db)
           /\ dconn' = [dconn EXCEPT !.pc = "updated", !.tx = r.tx]
    /\ write_lock' = "dconn"
    /\ UNCHANGED <<has_proj, valuation_config, historical_prices, tconn,
                   last, ret, before>>
    /\ UNCHANGED <<calc, rconn>>

\* draft_player: conn.execute(INSERT INTO draft_log ...)
DraftExecInsert ==
    /\ dconn.op = "draft" /\ dconn.pc = "updated"
    /\ LET r == ImplicitTransaction(Db, DraftInsert(dconn.tx, dconn.table, dconn.name,
                                                    dconn.price, dconn.team,
                                                    dconn.salary))
       IN  /\ Committed(r.db)
           /\ dconn' = [dconn EXCEPT !.pc = "inserted", !.tx = r.tx]
    /\ UNCHANGED <<has_proj, valuation_config, historical_prices, write_lock,
                   tconn, last, ret, before>>
    /\ UNCHANGED <<calc, rconn>>

\* draft_player: conn.commit(); conn.close()
DraftCommit ==
    /\ dconn.op = "draft" /\ dconn.pc = "inserted"
    /\ Committed(dconn.tx)
    /\ dconn' = IdleConn
    /\ write_lock' = "none"
    /\ last' = "draft"
    /\ ret' = Void
    /\ before' = Db
    /\ UNCHANGED <<has_proj, valuation_config, historical_prices, tconn>>
    /\ UNCHANGED <<calc, rconn>>

\* undo_last_draft: the SELECT of the last entry, and the return of None
\* when there is none
UndoSelect ==
    /\ dconn = IdleConn
    /\ IF draft_log = <<>>
       THEN /\ ret' = UndoReturn(Db)
            /\ last' = IF last = "draft" THEN "draft_undo" ELSE "undo"
            /\ before' = IF last = "draft" THEN before ELSE NoTx
            /\ UNCHANGED dconn
       ELSE /\ dconn' = [IdleConn EXCEPT !.op = "undo", !.pc = "selected",
                                         !.entry = LastEntry(Db)]
            /\ UNCHANGED <<last, ret, before>>
    /\ UNCHANGED <<hitters, pitchers, has_proj, draft_log, valuation_config,
                   historical_prices, write_lock, tconn>>
    /\ UNCHANGED <<calc, rconn>>

\* undo_last_draft: conn.execute(UPDATE ...), which takes the write lock
UndoExecUpdate ==
    /\ dconn.op = "undo" /\ dconn.pc = "selected"
    /\ write_lock = "none"
    /\ LET r == ImplicitTransaction(Db, UndoUpdate(Db, dconn.entry))
       IN  /\ Committed(r.db)
           /\ dconn' = [dconn EXCEPT !.pc = "updated", !.tx = r.tx]
    /\ write_lock' = "dconn"
    /\ UNCHANGED <<has_proj, valuation_config, historical_prices, tconn,
                   last, ret, before>>
    /\ UNCHANGED <<calc, rconn>>

\* undo_last_draft: conn.execute(DELETE FROM draft_log WHERE id = ?)
UndoExecDelete ==
    /\ dconn.op = "undo" /\ dconn.pc = "updated"
    /\ LET r == ImplicitTransaction(Db, UndoDelete(dconn.tx))
       IN  /\ Committed(r.db)
           /\ dconn' = [dconn EXCEPT !.pc = "deleted", !.tx = r.tx]
    /\ UNCHANGED <<has_proj, valuation_config, historical_prices, write_lock,
                   tconn, last, ret, before>>
    /\ UNCHANGED <<calc, rconn>>

\* undo_last_draft: conn.commit(); conn.close(); return last["player_name"]
UndoCommit ==
    /\ dconn.op = "undo" /\ dconn.pc = "deleted"
    /\ Committed(dconn.tx)
    /\ dconn' = IdleConn
    /\ write_lock' = "none"
    /\ ret' = [kind |-> "name", value |-> dconn.entry.player_name]
    /\ last' = IF last = "draft" THEN "draft_undo" ELSE "undo"
    /\ before' = IF last = "draft" THEN before ELSE NoTx
    /\ UNCHANGED <<has_proj, valuation_config, historical_prices, tconn>>
    /\ UNCHANGED <<calc, rconn>>

\* train_and_predict: the three reads, the matching and the fit; the tables
\* read stay in the call's DataFrames
TrainRead ==
    /\ tconn = IdleTrain
    /\ LET out == TrainingOutcome(historical_prices, hitters, pitchers, has_proj)
       IN  IF out.kind = "raise"
           THEN /\ ret' = out
                /\ last' = "train"
                /\ before' = NoTx
                /\ UNCHANGED tconn
           ELSE /\ \E m \in Models :
                     tconn' = [pc |-> "fitted", hitters |-> hitters,
                               pitchers |-> pitchers, model |-> m]
                /\ UNCHANGED <<last, ret, before>>
    /\ UNCHANGED <<hitters, pitchers, has_proj, draft_log, valuation_config,
                   historical_prices, dconn, write_lock>>
    /\ UNCHANGED <<calc, rconn>>

\* _predict_table(conn, hitters, "hitters", ...): the UPDATEs and the commit
TrainPredictHitters ==
    /\ tconn.pc = "fitted"
    /\ write_lock = "none"
    /\ hitters' = PredictTable(hitters, tconn.hitters, "hitters",
                               has_proj.hitters, tconn.model)
    /\ tconn' = [tconn EXCEPT !.pc = "hitters_done"]
    /\ UNCHANGED <<pitchers, has_proj, draft_log, valuation_config,
                   historical_prices, dconn, write_lock, last, ret, before>>
    /\ UNCHANGED <<calc, rconn>>

\* _predict_table(conn, pitchers, "pitchers", ...): the UPDATEs and the commit
TrainPredictPitchers ==
    /\ tconn.pc = "hitters_done"
    /\ write_lock = "none"
    /\ pitchers' = PredictTable(pitchers, tconn.pitchers, "pitchers",
                                has_proj.pitchers, tconn.model)
    /\ tconn' = [tconn EXCEPT !.pc = "pitchers_done"]
    /\ UNCHANGED <<hitters, has_proj, draft_log, valuation_config,
                   historical_prices, dconn, write_lock, last, ret, before>>
    /\ UNCHANGED <<calc, rconn>>

\* update_surplus_values() on its own connection, and the return
TrainUpdateSurplus ==
    /\ tconn.pc = "pitchers_done"
    /\ write_lock = "none"
    /\ hitters' = UpdateSurplus(hitters)
    /\ pitchers' = UpdateSurplus(pitchers)
    /\ tconn' = IdleTrain
    /\ ret' = [kind |-> "dict", value |-> <<>>]
    /\ last' = "train"
    /\ before' = NoTx
    /\ UNCHANGED <<has_proj, draft_log, valuation_config, historical_prices,
                   dconn, write_lock>>
    /\ UNCHANGED <<calc, rconn>>

\* DataFrame.to_sql(table, conn, if_exists="replace"): the stored table is
\* dropped and the call's DataFrame is written in its place
RecalcWriteBack(stored, computed) == computed

\* recalculate_values: the reads of valuation_config, hitters and pitchers,
\* the return when neither table has proj_fpts, and calculate_dollar_values
\* on the DataFrames read
RecalcRead ==
    /\ rconn = IdleRecalc
    /\ IF ~has_proj.hitters /\ ~has_proj.pitchers
       THEN /\ last' = "recalculate"
            /\ ret' = Void
            /\ before' = NoTx
            /\ UNCHANGED rconn
       ELSE /\ LET v == calculate_dollar_values(hitters, pitchers, has_proj,
                                                valuation_config)
               IN  rconn' = [pc |-> "computed", hitters |-> v.hitters,
                             pitchers |-> v.pitchers]
            /\ UNCHANGED <<last, ret, before>>
    /\ UNCHANGED <<hitters, pitchers, has_proj, draft_log, valuation_config,
                   historical_prices, dconn, write_lock, tconn, calc>>

\* recalculate_values: hitters.to_sql("hitters", conn, if_exists="replace"),
\* which needs the write lock and commits
RecalcWriteHitters ==
    /\ rconn.pc = "computed"
    /\ write_lock = "none"
    /\ hitters' = RecalcWriteBack(hitters, rconn.hitters)
    /\ rconn' = [rconn EXCEPT !.pc = "hitters_written"]
    /\ UNCHANGED <<pitchers, has_proj, draft_log, valuation_config,
                   historical_prices, dconn, write_lock, tconn, last, ret,
                   before, calc>>

\* recalculate_values: pitchers.to_sql("pitchers", conn,
\* if_exists="replace"); conn.close()
RecalcWritePitchers ==
    /\ rconn.pc = "hitters_written"
    /\ write_lock = "none"
    /\ pitchers' = RecalcWriteBack(pitchers, rconn.pitchers)
    /\ rconn' = IdleRecalc
    /\ last' = "recalculate"
    /\ ret' = Void
    /\ before' = NoTx
    /\ UNCHANGED <<hitters, has_proj, draft_log, valuation_config,
                   historical_prices, dconn, write_lock, tconn, calc>>

DraftStep == DraftSelect \/ DraftExecUpdate \/ DraftExecInsert \/ DraftCommit
UndoStep == UndoSelect \/ UndoExecUpdate \/ UndoExecDelete \/ UndoCommit

NextC ==
    \/ DraftSelect
    \/ DraftExecUpdate
    \/ DraftExecInsert
    \/ DraftCommit
    \/ UndoSelect
    \/ UndoExecUpdate
    \/ UndoExecDelete
    \/ UndoCommit
    \/ TrainRead
    \/ TrainPredictHitters
    \/ TrainPredictPitchers
    \/ TrainUpdateSurplus

\* statements of one draft or undo call interleaved with those of one
\* training run
SpecC == Init /\ [][NextC]_vars

NextR ==
    \/ DraftSelect
    \/ DraftExecUpdate
    \/ DraftExecInsert
    \/ DraftCommit
    \/ UndoSelect
    \/ UndoExecUpdate
    \/ UndoExecDelete
    \/ UndoCommit
    \/ RecalcRead
    \/ RecalcWriteHitters
    \/ RecalcWritePitchers

\* statements of one draft or undo call interleaved with those of one
\* recalculation
SpecR == Init /\ [][NextR]_vars

-----------------------------------------------------------------------------
(* Properties of the operations, one call at a time *)

Table(t) == IF t = "hitters" THEN hitters ELSE pitchers
TableNext(t) == IF t = "hitters" THEN hitters' ELSE pitchers'

\* the step is the completion of a call of one of ops, as `last` records it
Completes(ops) == last' \in ops

\* C1: for a player that exists in the named table and is not drafted, a
\* draft followed immediately by undo returns that player's name, leaves the
\* player undrafted with a null draft price, and leaves the draft log as it
\* was before the draft.
C1_DraftThenUndo ==
    [][ ( /\ last = "draft"
          /\ draft_log # <<>>
          /\ UndoLastDraft
          /\ LET e == LastEntry(Db)
             IN  /\ e.player_name \in DOMAIN before[EntryTable(e)]
                 /\ ~before[EntryTable(e)][e.player_name].is_drafted )
        => LET e == LastEntry(Db)
               row == TableNext(EntryTable(e))[e.player_name]
           IN  /\ ret' = [kind |-> "name", value |-> e.player_name]
               /\ ~row.is_drafted
               /\ row.draft_price = NULL
               /\ draft_log' = before.draft_log ]_vars

\* a draft of an undrafted, existing player has been undone
C1_Witness ==
    /\ last = "draft_undo"
    /\ ret.kind = "name"
    /\ ret.value \in DOMAIN before.hitters
    /\ ~before.hitters[ret.value].is_drafted
    /\ ~hitters[ret.value].is_drafted
    /\ draft_log = before.draft_log

\* C2: undo is the exact inverse of the most recent draft: a draft followed
\* immediately by undo yields the state the draft was applied in, whatever
\* the draft state of the named player was.
C2_UndoInvertsDraft ==
    last = "draft_undo" =>
        /\ hitters = before.hitters
        /\ pitchers = before.pitchers
        /\ draft_log = before.draft_log

\* C3: with an empty draft log, undo returns None and changes nothing.
C3_UndoOnEmptyLog ==
    [][ (draft_log = <<>> /\ UndoLastDraft)
        => /\ ret' = [kind |-> "none", value |-> <<>>]
           /\ hitters' = hitters
           /\ pitchers' = pitchers
           /\ draft_log' = <<>> ]_vars

\* undo has run on an empty log
C3_Witness ==
    /\ last \in {"undo", "draft_undo"}
    /\ ret.kind = "none"
    /\ draft_log = <<>>

IsPrediction(df, table, has_col, m) ==
    \A n \in DOMAIN df :
        (has_col /\ NotNull(df[n].proj_fpts)) =>
            /\ df[n].predicted_price = Some(Predict(m, PredictVector(table, df[n], has_col)))
            /\ NotNull(df[n].dollar_value)
            /\ df[n].surplus_value
                 = Some(Val(df[n].dollar_value) - Val(df[n].predicted_price))

\* C5: after recalculate completes in a state where the historical prices
\* suffice for training, every projected player's predicted_price is the
\* price model's prediction and surplus_value is dollar_value minus it.
C5_RecalculateRetrains ==
    ( /\ last = "recalculate"
      /\ TrainingOutcome(historical_prices, hitters, pitchers, has_proj).kind = "fit" )
    => \E m \in Models :
          /\ IsPrediction(hitters, "hitters", has_proj.hitters, m)
          /\ IsPrediction(pitchers, "pitchers", has_proj.pitchers, m)

\* C6: with fewer than 10 valid training rows train_and_predict raises an
\* error and leaves every predicted_price of both tables as it was.
C6_InsufficientTrainingData ==
    [][ ( /\ Completes({"train"})
          /\ TrainAndPredict
          /\ NumValidRows(historical_prices, hitters, pitchers, has_proj)
               < MinTrainingSamples )
        => /\ ret'.kind = "raise"
           /\ \A n \in DOMAIN hitters :
                 hitters'[n].predicted_price = hitters[n].predicted_price
           /\ \A n \in DOMAIN pitchers :
                 pitchers'[n].predicted_price = pitchers[n].predicted_price ]_vars

\* training was refused for want of samples, with historical prices loaded
\* and some players matched
C6_Witness ==
    /\ last = "train"
    /\ ret = Raise("Only n valid training samples")
    /\ \E n \in DOMAIN hitters : NotNull(hitters[n].predicted_price)

SurplusConsistent(df) ==
    \A n \in DOMAIN df :
        IF NotNull(df[n].dollar_value) /\ NotNull(df[n].predicted_price)
        THEN df[n].surplus_value
               = Some(Val(df[n].dollar_value) - Val(df[n].predicted_price))
        ELSE df[n].surplus_value = NULL

\* C7: after any completed valuation or price-model run, in any sequence of
\* operations, surplus_value = dollar_value - predicted_price where both are
\* non-null, and surplus_value is null otherwise.
C7_SurplusInvariant == SurplusConsistent(hitters) /\ SurplusConsistent(pitchers)

\* a trained model has moved a predicted price away from the dollar value
C7_Witness ==
    /\ last = "train"
    /\ ret.kind = "dict"
    /\ \E n \in DOMAIN hitters :
          /\ NotNull(hitters[n].surplus_value)
          /\ Val(hitters[n].surplus_value) # 0
    /\ \E n \in DOMAIN pitchers : IsNull(pitchers[n].surplus_value)
                                  \/ Val(pitchers[n].surplus_value) # 0

DraftState(r) == <<r.is_drafted, r.draft_price>>
OtherFields(r) == [r EXCEPT !.is_drafted = FALSE, !.draft_price = NULL]

\* C9: draft and undo change only is_drafted and draft_price of the targeted
\* player: every other field of that player and every field of every other
\* player in both tables is unchanged.
C9_DraftFrame ==
    [][ ( /\ Completes({"draft", "undo", "draft_undo"})
          /\ DraftPlayer \/ UndoLastDraft )
        => LET target == IF Len(draft_log') > Len(draft_log)
                         THEN <<LastEntry(Db')>>
                         ELSE IF draft_log # <<>> THEN <<LastEntry(Db)>> ELSE <<>>
           IN  \A t \in {"hitters", "pitchers"} :
                 /\ DOMAIN TableNext(t) = DOMAIN Table(t)
                 /\ \A n \in DOMAIN Table(t) :
                       /\ OtherFields(TableNext(t)[n]) = OtherFields(Table(t)[n])
                       /\ TableNext(t)[n] # Table(t)[n]
                            => /\ target # <<>>
                               /\ EntryTable(target[1]) = t
                               /\ target[1].player_name = n ]_vars

\* a draft has changed a player's draft state while valued players exist
C9_Witness ==
    /\ last = "draft"
    /\ \E n \in DOMAIN hitters : hitters[n].is_drafted
    /\ \E n \in DOMAIN hitters : ~hitters[n].is_drafted /\ NotNull(hitters[n].surplus_value)

\* C10: the valuation and prediction stages leave is_drafted and draft_price
\* of every player, the set of players of each table, and the draft log as
\* they were.
C10_ValuationFrame ==
    [][ ( /\ Completes({"recalculate", "train"})
          /\ RecalculateValues \/ TrainAndPredict )
        => /\ draft_log' = draft_log
           /\ \A t \in {"hitters", "pitchers"} :
                 /\ DOMAIN TableNext(t) = DOMAIN Table(t)
                 /\ \A n \in DOMAIN Table(t) :
                       DraftState(TableNext(t)[n]) = DraftState(Table(t)[n]) ]_vars

\* a valuation or a training run has rewritten the tables of a draft under way
C10_Witness ==
    /\ last \in {"recalculate", "train"}
    /\ ret.kind # "raise"
    /\ has_proj.hitters
    /\ draft_log # <<>>
    /\ \E n \in DOMAIN pitchers : pitchers[n].is_drafted

-----------------------------------------------------------------------------
(* Properties of what other connections can read *)

\* C4: the draft log entry and the player's draft flags are committed as one
\* unit: no step of a draft or an undo changes the committed flags without
\* the committed log, and once the log has changed the logged player's row
\* is in the matching draft state.
C4_DraftIsOneUnit ==
    [][ (DraftStep \/ UndoStep)
        => LET flagged == hitters' # hitters \/ pitchers' # pitchers
               logged == draft_log' # draft_log
               t == IF dconn.op = "draft" THEN dconn.table ELSE EntryTable(dconn.entry)
               name == IF dconn.op = "draft" THEN dconn.name ELSE dconn.entry.player_name
           IN  /\ flagged => logged
               /\ (logged /\ name \in DOMAIN Table(t)) =>
                     IF dconn.op = "draft"
                     THEN /\ Len(draft_log') = Len(draft_log) + 1
                          /\ TableNext(t)[name].is_drafted
                          /\ TableNext(t)[name].draft_price = Some(dconn.price)
                     ELSE /\ Len(draft_log') = Len(draft_log) - 1
                          /\ ~TableNext(t)[name].is_drafted
                          /\ TableNext(t)[name].draft_price = NULL ]_vars

\* a draft is half done on its connection: the player's row is updated
\* there and nothing of it is committed
C4_Witness ==
    /\ dconn.op = "draft"
    /\ dconn.pc = "updated"
    /\ dconn.name \in DOMAIN hitters
    /\ dconn.tx.hitters[dconn.name].is_drafted
    /\ ~hitters[dconn.name].is_drafted
    /\ dconn.tx.draft_log = draft_log

ValueColumns(df) == [n \in DOMAIN df |-> <<df[n].predicted_price, df[n].surplus_value>>]

\* C8: the price-model stage is atomic: while a training run is under way
\* the committed tables hold either the predictions and surplus values from
\* before the run, in both tables, or those of the run, in both tables.
C8_PriceModelAtomic ==
    tconn.pc # "idle" =>
        \/ /\ ValueColumns(hitters) = ValueColumns(tconn.hitters)
           /\ ValueColumns(pitchers) = ValueColumns(tconn.pitchers)
        \/ /\ ValueColumns(hitters)
                = ValueColumns(UpdateSurplus(PredictTable(tconn.hitters, tconn.hitters,
                                   "hitters", has_proj.hitters, tconn.model)))
           /\ ValueColumns(pitchers)
                = ValueColumns(UpdateSurplus(PredictTable(tconn.pitchers, tconn.pitchers,
                                   "pitchers", has_proj.pitchers, tconn.model)))


-----------------------------------------------------------------------------
(* Properties of the historical price table *)

\* C11: a historical record, keyed by (player_name, season), is never changed
\* or removed by any operation of the system, a pipeline reload included; the
\* only step that may replace it is a re-import, which keeps its key.
C11_HistoryKept ==
    [][\A r \in historical_prices :
          \/ r \in historical_prices'
          \/ /\ last' = "save_hist"
             /\ \E q \in historical_prices' :
                    /\ q.player_name = r.player_name
                    /\ q.season = r.season]_vars


-----------------------------------------------------------------------------
(* Loading and merging the source files *)

\* A DataFrame: its columns and its rows in file order; a row maps every
\* column to a cell, the cell of "name" being the name itself and every other
\* cell nullable.
Frame(cols, rows) == [cols |-> cols, rows |-> rows]

\* a frame with one row per name, as drop_duplicates and merge leave it: its
\* rows by name
NamesOf(rows) == {rows[i]["name"] : i \in DOMAIN rows}
FirstRow(rows, n) ==
    rows[CHOOSE i \in DOMAIN rows :
            /\ rows[i]["name"] = n
            /\ \A j \in 1..(i - 1) : rows[j]["name"] # n]

\* a drop_duplicates that drops nothing
drop_duplicates_KeepsAll(rows) == rows

\* drop_duplicates(subset="name", keep="first") on the rows of a frame
drop_duplicates(rows) ==
    LET kept[i \in 0..Len(rows)] ==
            IF i = 0 THEN <<>>
            ELSE IF \E j \in 1..(i - 1) : rows[j]["name"] = rows[i]["name"]
                 THEN kept[i - 1]
                 ELSE Append(kept[i - 1], rows[i])
    IN  kept[Len(rows)]

\* _dedup: drop_duplicates(subset="name", keep="first")
dedup(df) ==
    Let(drop_duplicates(df.rows), LAMBDA rows :
        Frame(df.cols, [n \in NamesOf(rows) |-> FirstRow(rows, n)]))

\* the number of rows of a frame that carry the name n
CountIn(rows, n) == Cardinality({i \in DOMAIN rows : rows[i]["name"] = n})

\* the rows an outer merge on name yields for one key: the product of the
\* rows on each side that carry it, a side without the key counting once
MergeCount(left, right) ==
    IF left = 0 THEN right ELSE IF right = 0 THEN left ELSE left * right

\* the cell of column c in the row of n, null when the frame has no such row
Cell(df, n, c) == IF n \in DOMAIN df.rows THEN df.rows[n][c] ELSE NULL

METADATA_COLUMNS == {"ottoneu_team", "salary"}

\* _merge_pair with a fill that overwrites: the cell of other wins wherever it
\* is not null
MergePairRows_Overwrites(base, other) ==
    Frame(base.cols \cup other.cols,
          [n \in DOMAIN base.rows \cup DOMAIN other.rows |->
             [c \in base.cols \cup other.cols |->
                IF c = "name" THEN n
                ELSE IF c \notin base.cols THEN Cell(other, n, c)
                ELSE IF /\ c \in METADATA_COLUMNS
                        /\ c \in other.cols
                        /\ NotNull(Cell(other, n, c))
                     THEN Cell(other, n, c)
                     ELSE Cell(base, n, c)]])

\* _merge_pair on a base with one row per name: an outer merge that adds the
\* columns of other the base does not have, then the fill of ottoneu_team and
\* salary where the merged cell is null
MergePairRows(base, other) ==
    Frame(base.cols \cup other.cols,
          [n \in DOMAIN base.rows \cup DOMAIN other.rows |->
             [c \in base.cols \cup other.cols |->
                IF c = "name" THEN n
                ELSE IF c \notin base.cols THEN Cell(other, n, c)
                ELSE IF /\ c \in METADATA_COLUMNS
                        /\ c \in other.cols
                        /\ IsNull(Cell(base, n, c))
                     THEN Cell(other, n, c)
                     ELSE Cell(base, n, c)]])

merge_pair(base, other) ==
    Let(dedup(other), LAMBDA o : MergePairRows(base, o))

\* a source that is not among the files
Absent == [cols |-> {}, rows |-> <<>>]

\* _merge_projections: nothing for an empty frame, else an outer merge (the
\* proj_ prefix keeps the columns apart)
merge_projections(df, proj) ==
    IF proj.rows = <<>> THEN df
    ELSE Let(dedup(proj), LAMBDA p :
            Frame(df.cols \cup p.cols,
                  [n \in DOMAIN df.rows \cup DOMAIN p.rows |->
                     [c \in df.cols \cup p.cols |->
                        IF c = "name" THEN n
                        ELSE IF c \in df.cols THEN Cell(df, n, c)
                        ELSE Cell(p, n, c)]]))

POSITION_COLUMNS == {"position", "ottoneu_team", "salary"}

\* a position merge that only fills the cells that are null so far
merge_position_universe_FillOnly(df, pos_df) ==
    Let(dedup(pos_df), LAMBDA p :
        Frame(df.cols \cup p.cols,
              [n \in DOMAIN df.rows \cup DOMAIN p.rows |->
                 [c \in df.cols \cup p.cols |->
                    IF c = "name" THEN n
                    ELSE IF c \notin df.cols THEN Cell(p, n, c)
                    ELSE IF /\ c \in POSITION_COLUMNS
                            /\ c \in p.cols
                            /\ IsNull(Cell(df, n, c))
                         THEN Cell(p, n, c)
                         ELSE Cell(df, n, c)]]))

\* _merge_position_universe: an outer merge in which the position CSV's cell
\* wins for position, ottoneu_team and salary wherever it is not null
merge_position_universe(df, pos_df) ==
    Let(dedup(pos_df), LAMBDA p :
        Frame(df.cols \cup p.cols,
              [n \in DOMAIN df.rows \cup DOMAIN p.rows |->
                 [c \in df.cols \cup p.cols |->
                    IF c = "name" THEN n
                    ELSE IF c \notin df.cols THEN Cell(p, n, c)
                    ELSE IF /\ c \in POSITION_COLUMNS
                            /\ c \in p.cols
                            /\ NotNull(Cell(p, n, c))
                         THEN Cell(p, n, c)
                         ELSE Cell(df, n, c)]]))

OWNERSHIP_PRUNE_THRESHOLD == 5

\* the three masks of _prune_irrelevant_players
no_proj(df, n) == "proj_fpts" \notin df.cols \/ IsNull(df.rows[n]["proj_fpts"])
no_hist(df, n) == "fpts" \notin df.cols \/ IsNull(df.rows[n]["fpts"])
low_own(df, n) ==
    \/ IsNull(df.rows[n]["ownership_pct"])
    \/ Val(df.rows[n]["ownership_pct"]) <= OWNERSHIP_PRUNE_THRESHOLD

\* _prune_irrelevant_players
prune_irrelevant_players(df) ==
    IF "ownership_pct" \notin df.cols THEN df
    ELSE Frame(df.cols,
               [n \in {m \in DOMAIN df.rows :
                          ~(no_proj(df, m) /\ no_hist(df, m) /\ low_own(df, m))}
                  |-> df.rows[n]])

\* the columns merge_hitters / merge_pitchers initialise after pruning
InitColumns(df) ==
    Let(df.cols \cup {"is_drafted", "draft_price", "position", "ownership_pct",
                      "dollar_value", "predicted_price", "surplus_value"},
        LAMBDA cols :
        Frame(cols,
              [n \in DOMAIN df.rows |->
                 [c \in cols |->
                    IF c = "is_drafted" THEN <<FALSE>>
                    ELSE IF c \in {"draft_price", "dollar_value",
                                   "predicted_price", "surplus_value"} THEN NULL
                    ELSE IF c \in df.cols THEN df.rows[n][c]
                    ELSE NULL]]))

\* the rows of the merged frame that carry the name n: every source goes
\* through drop_duplicates, then an outer merge on name
row_count(files, kind, n) ==
    Let(CountIn(drop_duplicates(files.fantasy.rows), n), LAMBDA f :
    Let(MergeCount(f, CountIn(drop_duplicates(files.advanced.rows), n)), LAMBDA a :
    Let(MergeCount(a, CountIn(drop_duplicates(files.batted_ball.rows), n)), LAMBDA b :
    Let(IF kind = "pitchers"
        THEN MergeCount(b, CountIn(drop_duplicates(files.modeling.rows), n))
        ELSE b, LAMBDA cat :
    Let(MergeCount(cat, CountIn(drop_duplicates(files.projections.rows), n)),
        LAMBDA pr :
        MergeCount(pr, CountIn(drop_duplicates(files.positions.rows), n)))))))

\* merge_hitters and merge_pitchers (which also merges the modeling file):
\* the frame after the category files, after the projections, before
\* pruning, and the frame returned
merge_table(files, kind) ==
    Let(dedup(files.fantasy), LAMBDA f :
    Let(merge_pair(f, files.advanced), LAMBDA a :
    Let(merge_pair(a, files.batted_ball), LAMBDA b :
    Let(IF kind = "pitchers" THEN merge_pair(b, files.modeling) ELSE b,
        LAMBDA cat :
    Let(IF files.projections # Absent
        THEN merge_projections(cat, files.projections) ELSE cat, LAMBDA pr :
    Let(IF files.positions # Absent
        THEN merge_position_universe(pr, files.positions) ELSE pr, LAMBDA full :
    Let(prune_irrelevant_players(full), LAMBDA kept :
        [category |-> cat, projected |-> pr, merged |-> full,
         out |-> InitColumns(kept)])))))))

\* the spellings the source files use for two players
SourceNames ==
    { <<"e'">>, <<"e">>, <<" ", "e">>, <<"e", " ", "J", "r", ".">>, <<"b">> }

\* normalize_name over the spellings in use, tabulated once
NormOf == [n \in SourceNames |-> normalize_name(n)]
StripOf == [n \in SourceNames |-> Strip(n)]

\* load_file: the cells arrive parsed; the name column is normalized
load_file(raw) ==
    Frame(raw.cols,
          [i \in DOMAIN raw.rows |->
             [c \in raw.cols |->
                IF c = "name" THEN NormOf[raw.rows[i][c]] ELSE raw.rows[i][c]]])

\* load_projections: load_file, then every column but name gets the prefix
\* proj_ (the projection files of the model hold one stat column, fpts); a
\* missing file is an empty frame
load_projections(raw) ==
    IF raw = Absent THEN Absent
    ELSE Frame({"name", "proj_fpts"},
               [i \in DOMAIN raw.rows |->
                  [name |-> NormOf[raw.rows[i]["name"]],
                   proj_fpts |-> raw.rows[i]["fpts"]]])

\* load_position_universe: the name column is only stripped of surrounding
\* whitespace (its drop_duplicates is the one _merge_position_universe
\* repeats)
load_position_universe(raw) ==
    Frame(raw.cols,
          [i \in DOMAIN raw.rows |->
             [c \in raw.cols |->
                IF c = "name" THEN StripOf[raw.rows[i][c]] ELSE raw.rows[i][c]]])

\* load_all for one population
load_all(raw) ==
    [fantasy |-> load_file(raw.fantasy),
     advanced |-> load_file(raw.advanced),
     batted_ball |-> load_file(raw.batted_ball),
     modeling |-> load_file(raw.modeling),
     projections |-> Let(load_projections(raw.projections), LAMBDA p :
                         IF p.rows = <<>> THEN Absent ELSE p),
     positions |-> IF raw.positions = Absent THEN Absent
                   ELSE load_position_universe(raw.positions)]

\* The source files of the model
CategoryCols(stat) == {"name", "ottoneu_team", "salary", stat}
CategoryRow(stat, n, team, salary, v) ==
    (stat :> v) @@ [name |-> n, ottoneu_team |-> team, salary |-> salary]

FantasyFiles ==
    { Frame(CategoryCols("fpts"), <<CategoryRow("fpts", <<"e'">>, t, s, f)>>)
        : t \in {NULL, Some("X")}, s \in {NULL, Some(5)}, f \in {NULL, Some(100)} }
    \cup
    { Frame(CategoryCols("fpts"),
            << CategoryRow("fpts", <<"e'">>, Some("X"), Some(5), Some(100)),
               CategoryRow("fpts", <<"e">>, Some("Y"), Some(7), Some(50)) >>) }

AdvancedFiles ==
    { Frame(CategoryCols("war"),
            <<CategoryRow("war", <<"e", " ", "J", "r", ".">>, t, s, Some(2))>>)
        : t \in {NULL, Some("Y")}, s \in {NULL, Some(7)} }
    \cup
    { Frame(CategoryCols("war"),
            << CategoryRow("war", <<"e">>, Some("Y"), Some(7), Some(2)),
               CategoryRow("war", <<"b">>, NULL, Some(2), Some(1)) >>) }

BattedBallFiles ==
    { Frame(CategoryCols("gb_pct"), <<>>),
      Frame(CategoryCols("gb_pct"),
            <<CategoryRow("gb_pct", <<"e">>, Some("Z"), Some(9), Some(40))>>) }

ModelingFiles ==
    { Frame(CategoryCols("stuff_plus"), <<>>),
      Frame(CategoryCols("stuff_plus"),
            <<CategoryRow("stuff_plus", <<"b">>, Some("W"), Some(3), Some(99))>>) }

ProjectionFiles ==
    { Absent,
      Frame({"name", "fpts"}, <<[name |-> <<"e'">>, fpts |-> Some(300)]>>),
      Frame({"name", "fpts"}, <<[name |-> <<"b">>, fpts |-> Some(200)]>>),
      Frame({"name", "fpts"}, <<[name |-> <<"e'">>, fpts |-> Some(300)],
                                [name |-> <<"e">>, fpts |-> Some(250)]>>) }

PositionCols == {"name", "position", "ottoneu_team", "salary", "ownership_pct"}
PositionRow(n, own) ==
    [name |-> n, position |-> Some("OF"), ottoneu_team |-> Some("P"),
     salary |-> Some(11), ownership_pct |-> own]

PositionFiles ==
    { Absent, Frame(PositionCols, <<>>) }
    \cup
    { Frame(PositionCols, <<PositionRow(n, own)>>)
        : n \in {<<" ", "e">>, <<"b">>}, own \in {NULL, Some(3), Some(6)} }
    \cup
    { Frame(PositionCols, <<PositionRow(<<"e'">>, Some(6))>>),
      Frame(PositionCols,
            <<[name |-> <<" ", "e">>, position |-> Some("OF"), ottoneu_team |-> NULL,
               salary |-> NULL, ownership_pct |-> Some(6)]>>),
      Frame(PositionCols,
            <<PositionRow(<<"e">>, Some(6)),
              [name |-> <<" ", "e">>, position |-> Some("C"), ottoneu_team |-> Some("Q"),
               salary |-> Some(12), ownership_pct |-> Some(3)]>>) }

\* a state with no database: the functions of the pipeline are called on
\* their own
NoDatabase ==
    /\ hitters = <<>>
    /\ pitchers = <<>>
    /\ has_proj = [hitters |-> FALSE, pitchers |-> FALSE]
    /\ draft_log = <<>>
    /\ valuation_config = DEFAULT_CONFIG
    /\ historical_prices = {}
    /\ dconn = IdleConn
    /\ write_lock = "none"
    /\ tconn = IdleTrain
    /\ last = "none"
    /\ ret = Void
    /\ before = NoTx

InitPure == NoDatabase /\ calc = NoCalc /\ rconn = IdleRecalc

MergeCall(kind, raw) ==
    Let(load_all(raw), LAMBDA files :
    Let(merge_table(files, kind), LAMBDA m :
        [op |-> "merge", kind |-> kind, raw |-> raw, files |-> files,
         category |-> m.category, projected |-> m.projected,
         merged |-> m.merged, out |-> m.out,
         count |-> [n \in DOMAIN m.out.rows |-> row_count(files, kind, n)]]))

\* load_all and merge_hitters on one set of hitter files
MergeHitters ==
    /\ calc = NoCalc
    /\ \E fan \in FantasyFiles, adv \in AdvancedFiles, bat \in BattedBallFiles,
          proj \in ProjectionFiles, pos \in PositionFiles :
          calc' = MergeCall("hitters",
                            [fantasy |-> fan, advanced |-> adv, batted_ball |-> bat,
                             modeling |-> Frame(CategoryCols("stuff_plus"), <<>>),
                             projections |-> proj, positions |-> pos])
    /\ UNCHANGED <<hitters, pitchers, has_proj, draft_log, valuation_config,
                   historical_prices, dconn, write_lock, tconn, last, ret, before>>
    /\ UNCHANGED rconn

\* load_all and merge_pitchers on one set of pitcher files
MergePitchers ==
    /\ calc = NoCalc
    /\ \E fan \in FantasyFiles, adv \in AdvancedFiles, bat \in BattedBallFiles,
          mod \in ModelingFiles, proj \in ProjectionFiles, pos \in PositionFiles :
          calc' = MergeCall("pitchers",
                            [fantasy |-> fan, advanced |-> adv, batted_ball |-> bat,
                             modeling |-> mod,
                             projections |-> proj, positions |-> pos])
    /\ UNCHANGED <<hitters, pitchers, has_proj, draft_log, valuation_config,
                   historical_prices, dconn, write_lock, tconn, last, ret, before>>
    /\ UNCHANGED rconn

NextMerge ==
    \/ MergeHitters
    \/ MergePitchers

\* the loader and the merger on their own, on every choice of source files
SpecMerge == InitPure /\ [][NextMerge]_vars


-----------------------------------------------------------------------------
(* Properties of the loader and the merger *)

\* the category files of a population in the order they are merged
CategorySources(files, kind) ==
    IF kind = "pitchers"
    THEN <<files.fantasy, files.advanced, files.batted_ball, files.modeling>>
    ELSE <<files.fantasy, files.advanced, files.batted_ball>>

\* the sources, by rank, that hold a non-null cell of column c for name n
Holders(srcs, n, c) ==
    {i \in DOMAIN srcs : /\ n \in NamesOf(srcs[i].rows)
                         /\ NotNull(FirstRow(srcs[i].rows, n)[c])}

\* C12: the category files are merged in the order fantasy, advanced,
\* batted-ball, modeling, and ottoneu_team and salary are filled from a later
\* file only where the value merged so far is null: each merged cell of the two
\* columns is the first non-null one in that order (so the fantasy salary wins
\* over a different advanced salary), and null when no file has one.
C12_MergePriority ==
    calc.op = "merge" =>
        \A n \in DOMAIN calc.category.rows, c \in METADATA_COLUMNS :
            \E srcs \in {CategorySources(calc.files, calc.kind)} :
            \E hs \in {Holders(srcs, n, c)} :
                calc.category.rows[n][c] =
                    IF hs = {} THEN NULL
                    ELSE FirstRow(srcs[CHOOSE i \in hs : \A j \in hs : i <= j].rows,
                                  n)[c]

\* fantasy has salary 5 and no team, advanced has salary 7 and team Y: the
\* merged record has salary 5 and team Y
C12_Witness ==
    /\ calc.op = "merge"
    /\ <<"e">> \in NamesOf(calc.files.fantasy.rows)
    /\ <<"e">> \in NamesOf(calc.files.advanced.rows)
    /\ FirstRow(calc.files.fantasy.rows, <<"e">>)["salary"] = Some(5)
    /\ FirstRow(calc.files.fantasy.rows, <<"e">>)["ottoneu_team"] = NULL
    /\ FirstRow(calc.files.advanced.rows, <<"e">>)["salary"] = Some(7)
    /\ FirstRow(calc.files.advanced.rows, <<"e">>)["ottoneu_team"] = Some("Y")
    /\ calc.category.rows[<<"e">>]["salary"] = Some(5)
    /\ calc.category.rows[<<"e">>]["ottoneu_team"] = Some("Y")

\* the cell of a column the frame may lack
CellOrNull(df, n, c) == IF c \in df.cols THEN df.rows[n][c] ELSE NULL

\* C13: pruning removes a record if and only if it has no projected points,
\* no historical points and an ownership percentage that is null or at most
\* the threshold, an ownership no source supplied counting as null.
C13_PruneIff ==
    calc.op = "merge" =>
        \A n \in DOMAIN calc.merged.rows :
            n \notin DOMAIN calc.out.rows
            <=> /\ IsNull(CellOrNull(calc.merged, n, "proj_fpts"))
                /\ IsNull(CellOrNull(calc.merged, n, "fpts"))
                /\ \E own \in {CellOrNull(calc.merged, n, "ownership_pct")} :
                       IsNull(own) \/ Val(own) <= OWNERSHIP_PRUNE_THRESHOLD

\* every spelling in the raw files of one population
RawNamesOf(raw) ==
    UNION {NamesOf(f.rows) : f \in {raw.fantasy, raw.advanced, raw.batted_ball,
                                    raw.modeling, raw.projections, raw.positions}}

\* C14: every source's names are normalized the same way before the join, so
\* the merged records are exactly the normalized names of the source rows, and
\* rows whose raw names normalize to one name are in one record.
C14_OneRecordPerName ==
    calc.op = "merge" =>
        DOMAIN calc.merged.rows = {NormOf[x] : x \in RawNamesOf(calc.raw)}


-----------------------------------------------------------------------------
(* The valuation of one pool on its own *)

MaxPool == 5    \* players in the pool

\* the proj_fpts cells of the pool, lowest first
FptsChoices == <<NULL, Some(-5), Some(10), Some(11), Some(500)>>

PoolRow(fpts) ==
    [proj_fpts |-> fpts, is_drafted |-> FALSE, draft_price |-> NULL,
     dollar_value |-> NULL, predicted_price |-> NULL, surplus_value |-> NULL]

\* the pools, one for each multiset of cells (the valuation sorts the column)
Pools ==
    { [i \in 1..MaxPool |-> PoolRow(FptsChoices[k[i]])]
        : k \in {f \in [1..MaxPool -> DOMAIN FptsChoices] :
                    \A i \in 1..(MaxPool - 1) : f[i] <= f[i + 1]} }

TeamCounts == {1, 2}
SlotCounts == {1, 3}
Budgets == { <<5, 1>>, <<100, 1>>, <<65, 2>> }

\* _calc_values on one pool, with the locals replacement_fpts and
\* _marginal_fpts it computes on the way
CalcValuesCall ==
    /\ calc = NoCalc
    /\ \E df \in Pools, has_col \in BOOLEAN, num_teams \in TeamCounts,
          players_per_team \in SlotCounts, budget \in Budgets :
          calc' = [op |-> "calc_values", df |-> df, has_col |-> has_col,
                   replacement_rank |-> num_teams * players_per_team,
                   budget |-> budget,
                   locals |-> IF has_col /\ Projected(df) # {}
                              THEN Let(ReplacementFpts(df, num_teams * players_per_team),
                                       LAMBDA r : <<[replacement_fpts |-> r,
                                                     marginal |-> MarginalFpts(df, r)]>>)
                              ELSE NULL,
                   out |-> CalcValues(df, has_col, num_teams, players_per_team,
                                      budget)]
    /\ UNCHANGED <<hitters, pitchers, has_proj, draft_log, valuation_config,
                   historical_prices, dconn, write_lock, tconn, last, ret, before>>
    /\ UNCHANGED rconn

NextVal == CalcValuesCall

\* the valuation on its own, on every pool and configuration
SpecVal == InitPure /\ [][NextVal]_vars


-----------------------------------------------------------------------------
(* Properties of the valuation of one pool *)

Abs(x) == IF x >= 0 THEN x ELSE -x

\* v is the integer nearest to n/d (d > 0), the even one of two equally near
IsNearest(v, n, d) ==
    /\ 2 * Abs(v * d - n) <= d
    /\ 2 * Abs(v * d - n) = d => v % 2 = 0

\* the sum of the _marginal_fpts column
TotalMarginal == SumOver(Val(calc.locals).marginal, Projected(calc.df))

\* C15: after a valuation, dollar_value is null for a player with no
\* projected points, exactly 0 for a projected player whose marginal points
\* are 0, and otherwise round(marginal * pool_budget / total_marginal) raised
\* to a minimum of 1.
C15_DollarValueRule ==
    calc.op = "calc_values" =>
        \A n \in DOMAIN calc.df :
            \E dv \in {calc.out[n].dollar_value} :
                IF ~calc.has_col \/ IsNull(calc.df[n].proj_fpts) THEN IsNull(dv)
                ELSE \E m \in {Val(calc.locals).marginal[n]}, T \in {TotalMarginal} :
                        IF m = 0 THEN dv = Some(0)
                        ELSE /\ NotNull(dv)
                             /\ Val(dv) >= 1
                             /\ \/ IsNearest(Val(dv), m * calc.budget[1],
                                             calc.budget[2] * T)
                                \/ /\ Val(dv) = 1
                                   /\ IsNearest(0, m * calc.budget[1],
                                                calc.budget[2] * T)

\* a pool with an unprojected player, a player at replacement level valued 0,
\* a player above it whose share rounds to 0 and is raised to 1, and a player
\* valued by the rounded share
C15_Witness ==
    /\ calc.op = "calc_values"
    /\ calc.has_col
    /\ NotNull(calc.locals)
    /\ \E n \in DOMAIN calc.df : IsNull(calc.df[n].proj_fpts)
    /\ \E n \in Projected(calc.df) :
          Val(calc.locals).marginal[n] = 0 /\ calc.out[n].dollar_value = Some(0)
    /\ \E n \in Projected(calc.df) :
          /\ Val(calc.locals).marginal[n] > 0
          /\ IsNearest(0, Val(calc.locals).marginal[n] * calc.budget[1],
                       calc.budget[2] * TotalMarginal)
          /\ calc.out[n].dollar_value = Some(1)
    /\ \E n \in Projected(calc.df) : Val(calc.out[n].dollar_value) >= 2

\* the sum of dollar_value over the pool, and the players it is summed over
Valued == {n \in DOMAIN calc.df : NotNull(calc.out[n].dollar_value)}
SumDollarValue ==
    SumOver([n \in Valued |-> Val(calc.out[n].dollar_value)], Valued)

\* the distance of the sum from the pool budget, times twice the budget's
\* denominator
BudgetGap2 == 2 * Abs(calc.budget[2] * SumDollarValue - calc.budget[1])

\* C16, as stated: for a pool in which no projected player has zero marginal
\* points, the sum of dollar_value is within 0.5 per valued player of the pool
\* budget.
C16_BudgetSumAsStated ==
    ( /\ calc.op = "calc_values"
      /\ \A n \in Projected(calc.df) :
            calc.has_col /\ NotNull(calc.locals)
                => Val(calc.locals).marginal[n] # 0 )
    => BudgetGap2 <= calc.budget[2] * Cardinality(Valued)

\* the players above replacement, and those of them whose share of the budget
\* rounds to 0 and is raised to 1
AboveReplacement ==
    {n \in Projected(calc.df) : Val(calc.locals).marginal[n] > 0}
RaisedToMinimum ==
    {n \in AboveReplacement :
        IsNearest(0, Val(calc.locals).marginal[n] * calc.budget[1],
                  calc.budget[2] * TotalMarginal)}

\* C16, amended: for a pool with a player above replacement, the sum of
\* dollar_value is within 0.5 per player above replacement of the pool budget,
\* plus a further 0.5 for every player raised to the minimum of 1.
C16_BudgetSum ==
    ( /\ calc.op = "calc_values"
      /\ calc.has_col
      /\ NotNull(calc.locals)
      /\ AboveReplacement # {} )
    => BudgetGap2 <= calc.budget[2] * ( Cardinality(AboveReplacement)
                                        + Cardinality(RaisedToMinimum) )

\* a pool whose sum is further than 0.5 per valued player from the budget
C16_Witness ==
    /\ calc.op = "calc_values"
    /\ calc.has_col
    /\ NotNull(calc.locals)
    /\ AboveReplacement # {}
    /\ RaisedToMinimum # {}
    /\ BudgetGap2 > calc.budget[2] * Cardinality(Valued)

\* the projected points of the pool, highest first
RECURSIVE SortedFpts(_, _)
SortedFpts(df, S) ==
    IF S = {} THEN <<>>
    ELSE LET n == CHOOSE x \in S :
                      \A y \in S : Val(df[x].proj_fpts) >= Val(df[y].proj_fpts)
         IN  <<Val(df[n].proj_fpts)>> \o SortedFpts(df, S \ {n})

\* C17: replacement_fpts is the projected-points value at rank num_teams *
\* players_per_team, highest first, when the pool has that many projected
\* players, and the lowest value otherwise; every projected player's marginal
\* points are at least 0.
C17_ReplacementLevel ==
    ( /\ calc.op = "calc_values"
      /\ calc.has_col
      /\ Projected(calc.df) # {} )
    => /\ NotNull(calc.locals)
       /\ \E s \in {SortedFpts(calc.df, Projected(calc.df))} :
             Val(calc.locals).replacement_fpts =
                 IF calc.replacement_rank <= Len(s)
                 THEN s[calc.replacement_rank] ELSE s[Len(s)]
       /\ \A n \in Projected(calc.df) : Val(calc.locals).marginal[n] >= 0

\* the rank falls inside the pool, above its lowest value, and a player below
\* replacement has marginal points 0
C17_Witness ==
    /\ calc.op = "calc_values"
    /\ calc.has_col
    /\ NotNull(calc.locals)
    /\ calc.replacement_rank <= Cardinality(Projected(calc.df))
    /\ \E n \in Projected(calc.df) :
          /\ Val(calc.df[n].proj_fpts) < Val(calc.locals).replacement_fpts
          /\ Val(calc.locals).marginal[n] = 0
    /\ \E n \in Projected(calc.df) : Val(calc.locals).marginal[n] > 0


-----------------------------------------------------------------------------
(* Properties of the valuation in the database *)

\* C18: the valuation is idempotent: in the state a recalculation leaves,
\* recalculating again with the same data and configuration gives every
\* player the dollar_value it already has.
C18_RecalculateIdempotent ==
    last = "recalculate" =>
        \E again \in {recalculate_values(Db, has_proj, valuation_config)} :
            /\ \A n \in DOMAIN hitters :
                  again.hitters[n].dollar_value = hitters[n].dollar_value
            /\ \A n \in DOMAIN pitchers :
                  again.pitchers[n].dollar_value = pitchers[n].dollar_value

\* a recalculation under the non-default configuration, with a drafted
\* player, a valued player and an unvalued one
C18_Witness ==
    /\ last = "recalculate"
    /\ valuation_config # DEFAULT_CONFIG
    /\ draft_log # <<>>
    /\ \E n \in DOMAIN hitters : NotNull(hitters[n].dollar_value)
                                 /\ Val(hitters[n].dollar_value) > 0
    /\ \E n \in DOMAIN hitters : IsNull(hitters[n].dollar_value)


\* the predicted_price column of a table is as a price-model run leaves it
PredictedPrices(df, has_col) ==
    \A n \in DOMAIN df :
        IF has_col /\ NotNull(df[n].proj_fpts)
        THEN NotNull(df[n].predicted_price) /\ Val(df[n].predicted_price) \in Nat
        ELSE IsNull(df[n].predicted_price)

\* C19: after a successful price-model run every player with non-null
\* projected points has a predicted_price that is a non-negative integer, and
\* every player without a projection has a null predicted_price (not 0).
C19_PredictedPrice ==
    (last = "train" /\ ret.kind = "dict")
        => /\ PredictedPrices(hitters, has_proj.hitters)
           /\ PredictedPrices(pitchers, has_proj.pitchers)

\* a run that predicted 0 for one projected player and more for another,
\* with an unprojected player in the table
C19_Witness ==
    /\ last = "train"
    /\ ret.kind = "dict"
    /\ \E n \in DOMAIN hitters \cup DOMAIN pitchers :
          \E r \in {IF n \in DOMAIN hitters THEN hitters[n] ELSE pitchers[n]} :
              NotNull(r.proj_fpts) /\ r.predicted_price = Some(0)
    /\ \E n \in DOMAIN hitters :
          NotNull(hitters[n].proj_fpts) /\ Val(hitters[n].predicted_price) > 0
    /\ \E n \in DOMAIN hitters : IsNull(hitters[n].proj_fpts)


-----------------------------------------------------------------------------
(* normalize_name on its own *)

\* The spellings of one name, "e t": with or without surrounding whitespace,
\* a diacritic on the first letter, a period after it, a repeated space
\* between the two words, one trailing generational suffix with its optional
\* comma and period, and a trailing period
Spelling(pre, first, dot, gap, suffix, tail) ==
    pre \o first \o dot \o gap \o <<"t">> \o suffix \o tail

Suffixes ==
    { <<>>,
      <<" ", "J", "r">>, <<" ", "J", "r", ".">>,
      <<",", " ", "J", "r">>, <<",", " ", "S", "r", ".">>,
      <<" ", "I", "I">>, <<" ", "I", "I", "I">>, <<" ", "I", "V">> }

Spellings ==
    { Spelling(pre, first, dot, gap, suffix, tail) :
        pre \in {<<>>, <<" ">>},
        first \in {<<"e">>, <<"e'">>},
        dot \in {<<>>, <<".">>},
        gap \in {<<" ">>, <<" ", " ">>},
        suffix \in Suffixes,
        tail \in {<<>>, <<" ">>, <<".">>, <<" ", ".">>} }

\* normalize_name on one spelling, and again on its result
NormalizeName ==
    /\ calc = NoCalc
    /\ \E raw \in Spellings :
          calc' = Let(normalize_name(raw), LAMBDA out :
                      [op |-> "normalize_name", raw |-> raw, out |-> out,
                       twice |-> normalize_name(out)])
    /\ UNCHANGED <<hitters, pitchers, has_proj, draft_log, valuation_config,
                   historical_prices, dconn, write_lock, tconn, last, ret, before>>
    /\ UNCHANGED rconn

NextNorm == NormalizeName

\* normalize_name on its own, on every spelling
SpecNorm == InitPure /\ [][NextNorm]_vars

\* C20: normalize_name maps names that differ only in surrounding or repeated
\* internal whitespace, periods, diacritics, or one trailing generational
\* suffix (with optional comma or period) to the same result: every spelling
\* of "e t" is normalized to "e t".
C20_SpellingsAgree ==
    calc.op = "normalize_name" => calc.out = <<"e", " ", "t">>


-----------------------------------------------------------------------------
(* Properties of history matching *)

\* the historical records of a current player, by match name
RecordsOf(n) == {r \in historical_prices : MatchName(r.player_name) = MatchName(n)}

\* the training pairs train_and_predict has just drawn from a table: the
\* matched players with their hist_price
TrainingPairs(t) ==
    Let({r \in historical_prices : NotNull(r.price)}, LAMBDA hist :
        MatchPlayers(hist, Table(t), t = "pitchers" \/ has_proj.hitters))

\* C21: the realized price used for a current player is the price recorded
\* for the player's highest-numbered historical season, and a player whose
\* price is null contributes no training pair.
C21_LatestSeasonPrice ==
    last = "train" =>
        \A t \in {"hitters", "pitchers"} :
            \E pairs \in {TrainingPairs(t)} :
                \A n \in DOMAIN pairs :
                    \E r \in RecordsOf(n) :
                        /\ \A q \in RecordsOf(n) : q.season <= r.season
                        /\ NotNull(r.price)
                        /\ pairs[n] = r.price


SeqRange(s) == {s[i] : i \in DOMAIN s}

\* C22: the feature vector built for a player at prediction time follows the
\* zero-fill rule of training: it holds zero for every feature of the union
\* space that is not in the feature set of the player's own population (a
\* pitcher row has 0 for proj_wrc_plus, proj_hr, proj_sb and proj_ops).
C22_ZeroFill ==
    (last = "train" /\ ret.kind = "dict") =>
        /\ \A n \in Projected(hitters) :
              \A f \in SeqRange(all_feature_names) \ SeqRange(HITTER_FEATURES) :
                  PredictVector("hitters", hitters[n], has_proj.hitters)[f][1] = 0
        /\ \A n \in Projected(pitchers) :
              \A f \in SeqRange(all_feature_names) \ SeqRange(PITCHER_FEATURES) :
                  PredictVector("pitchers", pitchers[n], has_proj.pitchers)[f][1] = 0


-----------------------------------------------------------------------------
(* Properties of the valuation's defaults *)

\* the columns as _calc_values leaves them: predicted_price = dollar_value
\* and surplus_value = 0 where there is a dollar value, both null elsewhere
DefaultPrices(df) ==
    \A n \in DOMAIN df :
        IF NotNull(df[n].dollar_value)
        THEN /\ df[n].predicted_price = df[n].dollar_value
             /\ df[n].surplus_value = Some(0)
        ELSE /\ IsNull(df[n].predicted_price)
             /\ IsNull(df[n].surplus_value)

\* C23: after a valuation run, and until a trained price model overwrites
\* it, every player with a dollar value has predicted_price = dollar_value
\* and surplus_value = 0, and every player without one has both null: a
\* recalculation (and a pipeline run that trains no model) leaves the tables
\* so, and every step other than a successful training or a pipeline run
\* keeps them so.
C23_DefaultsUntilTrained ==
    [][ /\ ( \/ Completes({"recalculate"})
             \/ Completes({"init_db"}) /\ historical_prices' = {} )
           => DefaultPrices(hitters') /\ DefaultPrices(pitchers')
        /\ ( /\ ~Completes({"init_db"})
             /\ ~(Completes({"train"}) /\ ret'.kind = "dict")
             /\ DefaultPrices(hitters) /\ DefaultPrices(pitchers) )
           => DefaultPrices(hitters') /\ DefaultPrices(pitchers') ]_vars

\* a recalculation under the other configuration, then a draft, with the
\* defaults still in place
C23_Witness ==
    /\ last = "draft"
    /\ valuation_config # DEFAULT_CONFIG
    /\ DefaultPrices(hitters) /\ DefaultPrices(pitchers)
    /\ \E n \in DOMAIN hitters : /\ hitters[n].is_drafted
                                 /\ NotNull(hitters[n].dollar_value)
    /\ \E n \in DOMAIN hitters : /\ NotNull(hitters[n].dollar_value)
                                 /\ Val(hitters[n].dollar_value) > 0
    /\ \E n \in DOMAIN hitters : IsNull(hitters[n].dollar_value)


-----------------------------------------------------------------------------
(* Properties of the position-universe merge and of duplicates *)

\* the cell of column c for name n in a source as loaded, first occurrence
SourceCell(src, n, c) ==
    IF c \in src.cols /\ n \in NamesOf(src.rows)
    THEN FirstRow(src.rows, n)[c] ELSE NULL

\* the cell of column c for name n in a merged frame, null when the frame
\* lacks the column or the row
MergedCell(df, n, c) ==
    IF c \in df.cols /\ n \in DOMAIN df.rows THEN df.rows[n][c] ELSE NULL

\* C24: when the position-universe source is merged, position, team and
\* salary take its value wherever it has a non-null one for the player and
\* keep the value merged before otherwise; ownership_pct comes from it alone.
C24_PositionUniverseWins ==
    (calc.op = "merge" /\ calc.files.positions # Absent) =>
        \A n \in DOMAIN calc.merged.rows :
            /\ \A c \in POSITION_COLUMNS :
                  \E pv \in {SourceCell(calc.files.positions, n, c)} :
                      calc.merged.rows[n][c] =
                          IF NotNull(pv) THEN pv
                          ELSE MergedCell(calc.projected, n, c)
            /\ calc.merged.rows[n]["ownership_pct"]
                 = SourceCell(calc.files.positions, n, "ownership_pct")

\* the position file overrides the salary 5 and team X of "e", or, where its
\* own cells are null, leaves them in place
C24_Witness ==
    /\ calc.op = "merge"
    /\ calc.files.positions # Absent
    /\ <<"e">> \in DOMAIN calc.projected.rows
    /\ calc.projected.rows[<<"e">>]["salary"] = Some(5)
    /\ calc.projected.rows[<<"e">>]["ottoneu_team"] = Some("X")
    /\ SourceCell(calc.files.positions, <<"e">>, "salary") = Some(11)
    /\ calc.merged.rows[<<"e">>]["salary"] = Some(11)
    /\ calc.merged.rows[<<"e">>]["ottoneu_team"] = Some("P")
    /\ calc.merged.rows[<<"e">>]["ownership_pct"] = Some(3)
    /\ <<"b">> \in DOMAIN calc.merged.rows
    /\ calc.merged.rows[<<"b">>]["salary"] = Some(2)
    /\ IsNull(calc.merged.rows[<<"b">>]["ownership_pct"])


-----------------------------------------------------------------------------
(* Further properties of the valuation of one pool *)

\* C25: when the marginal points of a pool sum to 0 the valuation completes,
\* every projected player's dollar_value is 0 and every unprojected player's
\* stays null.
C25_ZeroTotalMarginal ==
    ( /\ calc.op = "calc_values"
      /\ NotNull(calc.locals)
      /\ TotalMarginal = 0 ) =>
        \A n \in DOMAIN calc.df :
            IF NotNull(calc.df[n].proj_fpts)
            THEN calc.out[n].dollar_value = Some(0)
            ELSE IsNull(calc.out[n].dollar_value)

\* a pool whose replacement level is its highest projection, with two
\* different projections and an unprojected player
C25_Witness ==
    /\ calc.op = "calc_values"
    /\ NotNull(calc.locals)
    /\ TotalMarginal = 0
    /\ \E n, k \in Projected(calc.df) :
          /\ Val(calc.df[n].proj_fpts) < Val(calc.df[k].proj_fpts)
          /\ calc.out[n].dollar_value = Some(0)
          /\ calc.out[k].dollar_value = Some(0)
    /\ \E n \in DOMAIN calc.df :
          IsNull(calc.df[n].proj_fpts) /\ IsNull(calc.out[n].dollar_value)


\* C30: within one pool and one valuation, a player with at least the
\* projected points of another has at least its dollar_value, and players
\* with equal projected points have equal dollar values.
C30_MonotoneInPoints ==
    (calc.op = "calc_values" /\ calc.has_col) =>
        \A n, k \in Projected(calc.df) :
            /\ Val(calc.df[n].proj_fpts) >= Val(calc.df[k].proj_fpts)
                 => Val(calc.out[n].dollar_value) >= Val(calc.out[k].dollar_value)
            /\ Val(calc.df[n].proj_fpts) = Val(calc.df[k].proj_fpts)
                 => calc.out[n].dollar_value = calc.out[k].dollar_value

\* a pool with three different projections valued in strictly increasing
\* order and two players tied on points above replacement level
C30_Witness ==
    /\ calc.op = "calc_values"
    /\ calc.has_col
    /\ \E a, b, c \in Projected(calc.df) :
          /\ Val(calc.df[a].proj_fpts) < Val(calc.df[b].proj_fpts)
          /\ Val(calc.df[b].proj_fpts) < Val(calc.df[c].proj_fpts)
          /\ Val(calc.out[a].dollar_value) < Val(calc.out[b].dollar_value)
          /\ Val(calc.out[b].dollar_value) < Val(calc.out[c].dollar_value)
    /\ \E n, k \in Projected(calc.df) :
          /\ n # k
          /\ calc.df[n].proj_fpts = calc.df[k].proj_fpts
          /\ calc.out[n].dollar_value = calc.out[k].dollar_value
          /\ Val(calc.out[n].dollar_value) > 0


\* the sources merge_hitters or merge_pitchers reads
MergedSources ==
    {calc.files.fantasy, calc.files.advanced, calc.files.batted_ball,
     calc.files.projections, calc.files.positions}
    \cup (IF calc.kind = "pitchers" THEN {calc.files.modeling} ELSE {})

\* C26: a merged table has one record for each player name, whatever
\* duplicates the sources contain, and where a source lists a name more than
\* once the values merged are those of its first occurrence: a column that
\* one source alone supplies holds that source's first cell for the name,
\* and a shared column holds null or some source's first cell.
C26_FirstOccurrence ==
    calc.op = "merge" =>
        \A n \in DOMAIN calc.out.rows :
            /\ calc.count[n] = 1
            /\ calc.out.rows[n]["name"] = n
            /\ \A src \in MergedSources :
                  \A c \in src.cols \ {"name"} :
                      IF \A other \in MergedSources \ {src} : c \notin other.cols
                      THEN calc.out.rows[n][c] = SourceCell(src, n, c)
                      ELSE calc.out.rows[n][c] \in
                               {NULL} \cup {SourceCell(s, n, c) : s \in MergedSources}

\* the fantasy, projection and position files each list "e" twice, with
\* different values, and the merged record holds the first of each
C26_Witness ==
    /\ calc.op = "merge"
    /\ \A src \in {calc.files.fantasy, calc.files.projections, calc.files.positions} :
          CountIn(src.rows, <<"e">>) = 2
    /\ <<"e">> \in DOMAIN calc.out.rows
    /\ calc.count[<<"e">>] = 1
    /\ calc.out.rows[<<"e">>]["fpts"] = Some(100)
    /\ calc.out.rows[<<"e">>]["proj_fpts"] = Some(300)
    /\ calc.out.rows[<<"e">>]["ownership_pct"] = Some(6)
    /\ calc.out.rows[<<"e">>]["position"] = Some("OF")


-----------------------------------------------------------------------------
(* Further properties of normalize_name *)

\* C29: normalize_name is idempotent: applied to its own result it returns
\* that result unchanged.
C29_Idempotent ==
    calc.op = "normalize_name" => calc.twice = calc.out


-----------------------------------------------------------------------------
(* Properties of the draft log against the flags *)

\* the positions in the log of the entries for player n of table t
EntriesFor(t, n) ==
    {i \in DOMAIN draft_log :
        draft_log[i].player_name = n /\ EntryTable(draft_log[i]) = t}

\* C27: in every state a player is marked drafted exactly when the draft log
\* holds an entry with the player's name and population tag, the player's
\* draft_price is then the price of the most recent such entry, and every
\* log entry names a player of the tagged table.
C27_LogMatchesFlags ==
    /\ \A t \in {"hitters", "pitchers"} :
          \A n \in DOMAIN Table(t) :
              \E entries \in {EntriesFor(t, n)} :
                  /\ Table(t)[n].is_drafted <=> entries # {}
                  /\ entries # {} =>
                        \E i \in entries :
                            /\ \A j \in entries : j <= i
                            /\ Table(t)[n].draft_price = Some(draft_log[i].draft_price)
    /\ \A i \in DOMAIN draft_log :
          draft_log[i].player_name \in DOMAIN Table(EntryTable(draft_log[i]))


-----------------------------------------------------------------------------
(* Properties of a recalculation beside a draft *)

\* C28: a draft is never lost to a concurrent recalculation: when
\* recalculate_values writes a table back, every player who is drafted in the
\* committed table at that moment, a player drafted since the recalculation
\* read the tables included, is still drafted afterwards with the same
\* draft_price.
C28_DraftSurvivesRecalculation ==
    [][ (rconn.pc # "idle" /\ rconn'.pc # rconn.pc) =>
            \A t \in {"hitters", "pitchers"} :
                \A n \in DOMAIN Table(t) :
                    Table(t)[n].is_drafted =>
                        /\ TableNext(t)[n].is_drafted
                        /\ TableNext(t)[n].draft_price = Table(t)[n].draft_price ]_vars

====
